---- MODULE Spec2Model ----
(***************************************************************************)
(* Outfit-Simulator: colour analysis (src/src/core/color_analyzer.py) and  *)
(* the rule engine (src/src/core/rule_engine.py).                          *)
(*                                                                         *)
(* Representation.                                                         *)
(*   - An RGB tuple (r, g, b) is the record [r |-> r, g |-> g, b |-> b];   *)
(*     a colour given by name (a Python str) is the record [name |-> n].   *)
(*     isinstance(color, tuple) is "r" \in DOMAIN color.                   *)
(*   - The palette names and tones of the source are Chinese strings; the  *)
(*     model writes them in ASCII:                                         *)
(*       hei=black bai=white hui=gray zong=brown cheng=orange huang=yellow *)
(*       qianhuang=pale_yellow fen=pink shenhong=deep_red hong=red         *)
(*       qianlv=pale_green shenlv=deep_green lv=green qianlan=pale_blue    *)
(*       shenlan=deep_blue lan=blue qianzi=pale_purple shenzi=deep_purple  *)
(*       zi=purple; nuanse=warm lengse=cold zhongxing=neutral.             *)
(*     Style labels: chenshan=shirt waitao=coat pixie=leather_shoes        *)
(*       Txu=tshirt weiyi=hoodie niuzaiku=jeans xiuxianku=slacks           *)
(*       yundongxie=sneakers.  Context types: zhengshi=formal_occasion     *)
(*       shangwu=business gongzuo=work xiuxian=casual yundong=sport        *)
(*       juhui=party.                                                      *)
(*   - A Python dict is a function whose DOMAIN is the set of keys         *)
(*     present; d.get(k, default) is Get(d, k, default).                   *)
(*   - An Optional argument is <<>> (None) or <<v>>.                       *)
(*   - Floats.  Brightness 0.299 r + 0.587 g + 0.114 b is kept as the      *)
(*     integer 299 r + 587 g + 114 b (thousandths); ratios and products    *)
(*     are compared by cross-multiplication; the places where IEEE-754     *)
(*     double rounding makes the source's comparison differ from the exact *)
(*     one are tabulated (BrightnessRoundsDown, BrightnessRoundsUp,        *)
(*     Times115RoundsDown).  Weights are in tenths, the report score is in *)
(*     hundredths.  The score of a rule result is the double the source    *)
(*     computes (an integer in units of 2^-125, see the section on         *)
(*     IEEE-754 doubles).                                                  *)
(*     The builtin sum() adds floats from the left in CPython 3.11 and     *)
(*     earlier and with compensation from CPython 3.12 on: which of the    *)
(*     two the build does is the variable compensated_sum, fixed in Init   *)
(*     and handed to the operators that sum brightnesses.                  *)
(*   - References.  The library's list holds references to rule objects.   *)
(*     A registered rule is the record its constructor makes with the      *)
(*     identity of the object in the field id: two positions of the list   *)
(*     with the same id are the same object and change together.           *)
(***************************************************************************)
EXTENDS Integers, Sequences, FiniteSets, TLC

VARIABLES
    rules,   \* RuleEvaluator.rule_library.rules: sequence of rule objects
    pc,      \* position of the caller: "idle", "call" (arguments bound), "done"
    call,    \* the call in progress or just returned: [op |-> ..., arguments]
    ret,     \* the value returned by that call
    compensated_sum
             \* the interpreter's builtin sum(): TRUE when it adds floats with
             \* compensation (CPython 3.12 and later), FALSE when it adds them
             \* from the left only (CPython 3.11 and earlier)

vars == <<rules, pc, call, ret, compensated_sum>>

----------------------------------------------------------------------------
(* Generic helpers                                                          *)

Max2(a, b) == IF a >= b THEN a ELSE b

Min2(a, b) == IF a <= b THEN a ELSE b

Max3(a, b, c) == Max2(a, Max2(b, c))

Min3(a, b, c) == Min2(a, Min2(b, c))

\* d.get(k, default)
Get(d, k, default) == IF k \in DOMAIN d THEN d[k] ELSE default

\* seq.count(v)
Count(seq, v) == Cardinality({i \in 1..Len(seq) : seq[i] = v})

\* any(x in S for x in seq)
AnyIn(seq, S) == \E i \in 1..Len(seq) : seq[i] \in S

None == <<>>

Some(v) == <<v>>

EmptyDict == [k \in {} |-> ""]

RGB(r, g, b) == [r |-> r, g |-> g, b |-> b]

Named(n) == [name |-> n]

IsTuple(color) == "r" \in DOMAIN color

\* all sequences over S of length 0..n
SeqsUpTo(S, n) == UNION {[1..k -> S] : k \in 0..n}

----------------------------------------------------------------------------
(* color_analyzer.py                                                        *)

\* brightness = 0.299 * r + 0.587 * g + 0.114 * b, in thousandths (exact)
Brightness1000(c) == 299 * c.r + 587 * c.g + 114 * c.b

\* RGB values whose exact brightness is one of the thresholds 30, 80, 100,
\* 150, 200, 225 but whose double-precision brightness is just below it.
BrightnessRoundsDown ==
    { <<15,39,23>>, <<86,4,17>>,
      <<13,105,127>>, <<28,96,134>>, <<46,108,25>>, <<69,79,114>>, <<84,70,121>>,
      <<87,91,5>>, <<99,61,128>>, <<125,53,101>>, <<166,36,81>>,
      <<10,154,58>>, <<25,145,65>>, <<40,136,72>>, <<51,137,38>>, <<66,128,45>>,
      <<74,108,127>>, <<81,119,52>>, <<107,111,25>>, <<119,81,148>>, <<130,82,114>>,
      <<134,72,155>>, <<145,73,121>>, <<148,94,5>>, <<149,63,162>>, <<160,64,128>>,
      <<163,85,12>>, <<175,55,135>>, <<186,56,101>>, <<201,47,108>>, <<227,39,81>>,
      <<234,50,6>>,
      <<7,251,5>>, <<8,220,162>>, <<11,241,46>>, <<37,233,19>>, <<41,223,60>>,
      <<49,203,142>>, <<93,207,6>>, <<120,168,136>>, <<135,159,143>>, <<146,160,109>>,
      <<202,134,96>>, <<217,125,103>>, <<232,116,110>>, <<247,107,117>>,
      <<114,244,199>>, <<136,246,131>>, <<148,216,254>>, <<158,248,63>>,
      <<162,238,104>>, <<166,228,145>>, <<173,239,70>>, <<188,230,77>>, <<199,231,43>>,
      <<204,190,241>>, <<214,222,50>>, <<218,212,91>>, <<233,203,98>>, <<255,205,30>>,
      <<180,252,204>>, <<202,254,136>>, <<206,244,177>>, <<217,245,143>>,
      <<225,225,225>>, <<228,246,109>>, <<232,236,150>>, <<240,216,232>>,
      <<247,227,157>>, <<255,207,239>> }

\* RGB values whose exact brightness is a threshold but whose
\* double-precision brightness is just above it.
BrightnessRoundsUp ==
    { <<31,117,18>>, <<248,2,41>>, <<19,221,128>>, <<144,226,213>> }

\* the values of g for which g * 1.15 is an integer in exact arithmetic and
\* just below that integer in double precision
Times115RoundsDown == {100, 180, 200, 220}

\* brightness < t, as the double comparison of the source decides it
BrightnessLT(c, t) ==
    \/ Brightness1000(c) < 1000 * t
    \/ Brightness1000(c) = 1000 * t /\ <<c.r, c.g, c.b>> \in BrightnessRoundsDown

\* brightness > t, as the double comparison of the source decides it
BrightnessGT(c, t) ==
    \/ Brightness1000(c) > 1000 * t
    \/ Brightness1000(c) = 1000 * t /\ <<c.r, c.g, c.b>> \in BrightnessRoundsUp

Color(name, tone) == [name |-> name, tone |-> tone]

\* if brightness > 200 / elif brightness < low / else: the three shades of a family
Shade(c, low, pale, deep, plain, tone) ==
    IF BrightnessGT(c, 200) THEN Color(pale, tone)
    ELSE IF BrightnessLT(c, low) THEN Color(deep, tone)
    ELSE Color(plain, tone)

\* the classifier with the red family tested before yellow / orange
classify_color_type_red_first(rgb) ==
    LET r == rgb.r
        g == rgb.g
        b == rgb.b
        max_val == Max3(r, g, b)
        min_val == Min3(r, g, b)
        diff == max_val - min_val
        total == r + g + b
    IN  IF diff < 30 THEN
            IF BrightnessLT(rgb, 30) THEN Color("black", "neutral")
            ELSE IF BrightnessGT(rgb, 225) THEN Color("white", "neutral")
            ELSE Color("gray", "neutral")
        ELSE IF total = 0 THEN Color("black", "neutral")
        \* brown: brightness < 150 and r > 50 and g > 30 and b < min(r, g) * 0.7 ...
        ELSE IF /\ BrightnessLT(rgb, 150) /\ r > 50 /\ g > 30
                /\ 10 * b < 7 * Min2(r, g) /\ r > b /\ g > b
            THEN Color("brown", "warm")
        \* red: r_ratio > 0.4 and r > g and r > b
        ELSE IF 10 * r > 4 * total /\ r > g /\ r > b THEN
            Shade(rgb, 80, "pink", "deep_red", "red", "warm")
        \* yellow / orange: r_ratio > 0.35 and g_ratio > 0.3 and r > b and g > b
        ELSE IF 100 * r > 35 * total /\ 10 * g > 3 * total /\ r > b /\ g > b THEN
            IF /\ \/ 100 * r > 115 * g
                  \/ 100 * r = 115 * g /\ g \in Times115RoundsDown
               /\ g > 100
            THEN Color("orange", "warm")
            ELSE IF BrightnessGT(rgb, 200) THEN Color("pale_yellow", "warm")
            ELSE Color("yellow", "warm")
        \* green: g_ratio > 0.35 and g > r and g > b
        ELSE IF 100 * g > 35 * total /\ g > r /\ g > b THEN
            Shade(rgb, 100, "pale_green", "deep_green", "green", "cold")
        \* blue: b_ratio > 0.4 and b > r and b > g
        ELSE IF 10 * b > 4 * total /\ b > r /\ b > g THEN
            Shade(rgb, 100, "pale_blue", "deep_blue", "blue", "cold")
        \* purple: r_ratio > 0.3 and b_ratio > 0.3 and r > g and b > g
        ELSE IF 10 * r > 3 * total /\ 10 * b > 3 * total /\ r > g /\ b > g THEN
            Shade(rgb, 100, "pale_purple", "deep_purple", "purple", "cold")
        ELSE IF max_val = r THEN Color("red", "warm")
        ELSE IF max_val = g THEN Color("green", "cold")
        ELSE Color("blue", "cold")

classify_color_type(rgb) ==
    LET r == rgb.r
        g == rgb.g
        b == rgb.b
        max_val == Max3(r, g, b)
        min_val == Min3(r, g, b)
        diff == max_val - min_val
        total == r + g + b
    IN  IF diff < 30 THEN
            IF BrightnessLT(rgb, 30) THEN Color("black", "neutral")
            ELSE IF BrightnessGT(rgb, 225) THEN Color("white", "neutral")
            ELSE Color("gray", "neutral")
        ELSE IF total = 0 THEN Color("black", "neutral")
        \* brown: brightness < 150 and r > 50 and g > 30 and b < min(r, g) * 0.7 ...
        ELSE IF /\ BrightnessLT(rgb, 150) /\ r > 50 /\ g > 30
                /\ 10 * b < 7 * Min2(r, g) /\ r > b /\ g > b
            THEN Color("brown", "warm")
        \* yellow / orange: r_ratio > 0.35 and g_ratio > 0.3 and r > b and g > b
        ELSE IF 100 * r > 35 * total /\ 10 * g > 3 * total /\ r > b /\ g > b THEN
            IF /\ \/ 100 * r > 115 * g
                  \/ 100 * r = 115 * g /\ g \in Times115RoundsDown
               /\ g > 100
            THEN Color("orange", "warm")
            ELSE IF BrightnessGT(rgb, 200) THEN Color("pale_yellow", "warm")
            ELSE Color("yellow", "warm")
        \* red: r_ratio > 0.4 and r > g and r > b
        ELSE IF 10 * r > 4 * total /\ r > g /\ r > b THEN
            Shade(rgb, 80, "pink", "deep_red", "red", "warm")
        \* green: g_ratio > 0.35 and g > r and g > b
        ELSE IF 100 * g > 35 * total /\ g > r /\ g > b THEN
            Shade(rgb, 100, "pale_green", "deep_green", "green", "cold")
        \* blue: b_ratio > 0.4 and b > r and b > g
        ELSE IF 10 * b > 4 * total /\ b > r /\ b > g THEN
            Shade(rgb, 100, "pale_blue", "deep_blue", "blue", "cold")
        \* purple: r_ratio > 0.3 and b_ratio > 0.3 and r > g and b > g
        ELSE IF 10 * r > 3 * total /\ 10 * b > 3 * total /\ r > g /\ b > g THEN
            Shade(rgb, 100, "pale_purple", "deep_purple", "purple", "cold")
        ELSE IF max_val = r THEN Color("red", "warm")
        ELSE IF max_val = g THEN Color("green", "cold")
        ELSE Color("blue", "cold")

\* calculate_color_distance squared: (r1-r2)^2 + (g1-g2)^2 + (b1-b2)^2.
\* math.sqrt is monotone and exact on perfect squares, so the source's
\* comparisons d < 50, d < 100, d > 400 are decided on the squares.
calculate_color_distance_sq(color1, color2) ==
    (color1.r - color2.r) * (color1.r - color2.r)
    + (color1.g - color2.g) * (color1.g - color2.g)
    + (color1.b - color2.b) * (color1.b - color2.b)

\* complementary_pairs of evaluate_color_combo
complementary_pairs ==
    << <<{"red", "deep_red", "pink"}, {"green", "deep_green", "pale_green"}>>,
       <<{"blue", "deep_blue", "pale_blue"}, {"orange", "yellow", "pale_yellow"}>>,
       <<{"yellow", "pale_yellow"}, {"purple", "deep_purple", "pale_purple"}>> >>

\* has_complementary with the break taken after the first pair whatever it found
has_complementary_first_pair_only(color_types) ==
    /\ AnyIn(color_types, complementary_pairs[1][1])
    /\ AnyIn(color_types, complementary_pairs[1][2])

\* the loop that sets has_complementary
has_complementary(color_types) ==
    \E p \in 1..Len(complementary_pairs) :
        /\ AnyIn(color_types, complementary_pairs[p][1])
        /\ AnyIn(color_types, complementary_pairs[p][2])

\* analysis['contrast_scores'], squared: one entry per pair i < j
contrast_scores_sq(colors_list) ==
    {calculate_color_distance_sq(colors_list[p[1]], colors_list[p[2]]) :
        p \in {q \in (1..Len(colors_list)) \X (1..Len(colors_list)) : q[1] < q[2]}}

SetMin(S) == CHOOSE m \in S : \A x \in S : m <= x

SetMax(S) == CHOOSE m \in S : \A x \in S : m >= x

\* combo_score with the contrast deduction taken once per pair inside the
\* loop over the pairs, and the final clamp missing
combo_score_per_pair(colors_list) ==
    LET n == Len(colors_list)
        color_types == [i \in 1..n |-> classify_color_type(colors_list[i]).name]
        tones == [i \in 1..n |-> classify_color_type(colors_list[i]).tone]
        neutral_count == Count(tones, "neutral")
        pairs == {q \in (1..n) \X (1..n) : q[1] < q[2]}
        low == {q \in pairs :
                  calculate_color_distance_sq(colors_list[q[1]], colors_list[q[2]])
                      < 50 * 50}
        score1 == IF n > 3 THEN 100 - 20 ELSE 100
        score3 == IF Count(tones, "warm") > 0 /\ Count(tones, "cold") > 0
                     /\ neutral_count = 0
                  THEN score1 - 15 ELSE score1
        score4 == score3 - 20 * Cardinality(low)
        score5 == IF has_complementary(color_types) /\ neutral_count = 0
                  THEN score4 - 15 ELSE score4
    IN  score5

\* combo_score with step 3 and step 5 as one check: a complementary pair
\* without a neutral colour takes its 15 points and skips the warm / cold 15
combo_score_one_deduction(colors_list) ==
    LET n == Len(colors_list)
        color_types == [i \in 1..n |-> classify_color_type(colors_list[i]).name]
        tones == [i \in 1..n |-> classify_color_type(colors_list[i]).tone]
        warm_count == Count(tones, "warm")
        cold_count == Count(tones, "cold")
        neutral_count == Count(tones, "neutral")
        min_contrast_sq == SetMin(contrast_scores_sq(colors_list))
        max_contrast_sq == SetMax(contrast_scores_sq(colors_list))
        score1 == IF n > 3 THEN 100 - 20 ELSE 100
        score3 == IF /\ warm_count > 0 /\ cold_count > 0 /\ neutral_count = 0
                     /\ ~has_complementary(color_types)
                  THEN score1 - 15 ELSE score1
        score4a == IF min_contrast_sq < 50 * 50 THEN score3 - 20
                   ELSE IF min_contrast_sq < 100 * 100 THEN score3 - 10 ELSE score3
        score4 == IF max_contrast_sq > 400 * 400 THEN score4a - 10 ELSE score4a
        score5 == IF has_complementary(color_types) /\ neutral_count = 0
                  THEN score4 - 15 ELSE score4
    IN  Max2(0, Min2(100, score5))

\* the score of a list of two or more colours: 100, the deductions of steps
\* 1, 3, 4 and 5 in turn, then score = max(0, min(100, score))
combo_score(colors_list) ==
    LET n == Len(colors_list)
        color_types == [i \in 1..n |-> classify_color_type(colors_list[i]).name]
        tones == [i \in 1..n |-> classify_color_type(colors_list[i]).tone]
        warm_count == Count(tones, "warm")
        cold_count == Count(tones, "cold")
        neutral_count == Count(tones, "neutral")
        min_contrast_sq == SetMin(contrast_scores_sq(colors_list))
        max_contrast_sq == SetMax(contrast_scores_sq(colors_list))
        score1 == IF n > 3 THEN 100 - 20 ELSE 100
        score3 == IF warm_count > 0 /\ cold_count > 0 /\ neutral_count = 0
                  THEN score1 - 15 ELSE score1
        score4a == IF min_contrast_sq < 50 * 50 THEN score3 - 20
                   ELSE IF min_contrast_sq < 100 * 100 THEN score3 - 10 ELSE score3
        score4 == IF max_contrast_sq > 400 * 400 THEN score4a - 10 ELSE score4a
        score5 == IF has_complementary(color_types) /\ neutral_count = 0
                  THEN score4 - 15 ELSE score4
    IN  Max2(0, Min2(100, score5))

evaluate_color_combo(colors_list) ==
    IF Len(colors_list) = 0 THEN
        [score |-> 0, suggestions |-> <<"provide_a_color">>, analysis |-> EmptyDict]
    ELSE IF Len(colors_list) = 1 THEN
        [score |-> 100, suggestions |-> <<"single_color">>,
         analysis |-> [color_count |-> 1]]
    ELSE
    LET n == Len(colors_list)
        color_types == [i \in 1..n |-> classify_color_type(colors_list[i]).name]
        tones == [i \in 1..n |-> classify_color_type(colors_list[i]).tone]
        warm_count == Count(tones, "warm")
        cold_count == Count(tones, "cold")
        neutral_count == Count(tones, "neutral")
        min_contrast_sq == SetMin(contrast_scores_sq(colors_list))
        max_contrast_sq == SetMax(contrast_scores_sq(colors_list))
        compl == has_complementary(color_types)
        \* 1. three-colour principle
        sugg1 == IF n > 3 THEN <<"too_many_colors">>
                 ELSE IF n = 3 THEN <<"three_colors_ok">> ELSE <<>>
        \* 3. warm / cold
        sugg3 == IF warm_count > 0 /\ cold_count > 0
                 THEN IF neutral_count = 0 THEN Append(sugg1, "warm_cold_needs_neutral")
                      ELSE Append(sugg1, "warm_cold_ok")
                 ELSE sugg1
        \* 4. contrast: min_contrast < 50, < 100; max_contrast > 400
        sugg4a == IF min_contrast_sq < 50 * 50 THEN Append(sugg3, "contrast_too_low")
                  ELSE IF min_contrast_sq < 100 * 100 THEN Append(sugg3, "contrast_low")
                  ELSE sugg3
        sugg4 == IF max_contrast_sq > 400 * 400 THEN Append(sugg4a, "contrast_too_high")
                 ELSE sugg4a
        \* 5. complementary colours
        sugg5 == IF compl /\ neutral_count = 0
                 THEN Append(sugg4, "complementary_needs_neutral")
                 ELSE IF compl THEN Append(sugg4, "complementary_ok") ELSE sugg4
        \* 6. neutrals
        sugg6 == IF neutral_count = n THEN Append(sugg5, "all_neutral")
                 ELSE IF neutral_count > 0 /\ neutral_count < n
                      THEN Append(sugg5, "neutral_with_colors") ELSE sugg5
        score == combo_score(colors_list)
        sugg == IF score >= 80 /\ sugg6 = <<>> THEN <<"excellent">> ELSE sugg6
    IN  [score |-> score, suggestions |-> sugg,
         analysis |-> [color_count |-> n, color_types |-> color_types, tones |-> tones]]

----------------------------------------------------------------------------
(* IEEE-754 doubles.  A non-negative double below 2^20 is held exactly as a   *)
(* natural number of units of 2^-125: 0 and every double from 2^-72 up is a   *)
(* whole number of such units.  The doubles of the program are among them: a  *)
(* brightness is a sum of multiples of 2^-56, a score that is not 0 is at     *)
(* least 2^-46 (100 - h is a multiple of 2^-46 for a double h from 64 up), a  *)
(* weight is a number of tenths below 2^12 and a library has fewer than 2^8   *)
(* rules, so a product that is not 0 is at least 2^-50 and a quotient 2^-70.  *)
(* Naturals of any size are little-endian sequences of limbs in base 2^15,    *)
(* without leading zero limbs (0 is << >>).                                   *)

LimbBits == 15

LimbBase == 32768

FracBits == 125

\* 2^k for 0 <= k <= 15
Pow2(k) ==
    <<1, 2, 4, 8, 16, 32, 64, 128, 256, 512, 1024, 2048, 4096, 8192, 16384, 32768>>[k + 1]

RECURSIVE BigTrim(_)
BigTrim(a) ==
    IF a # <<>> /\ a[Len(a)] = 0 THEN BigTrim(SubSeq(a, 1, Len(a) - 1)) ELSE a

BigLimb(a, i) == IF i <= Len(a) THEN a[i] ELSE 0

RECURSIVE BigAddFrom(_, _, _, _)
BigAddFrom(a, b, i, carry) ==
    IF i > Max2(Len(a), Len(b))
    THEN IF carry = 0 THEN <<>> ELSE <<carry>>
    ELSE LET t == BigLimb(a, i) + BigLimb(b, i) + carry
         IN  <<t % LimbBase>> \o BigAddFrom(a, b, i + 1, t \div LimbBase)

BigAdd(a, b) == BigAddFrom(a, b, 1, 0)

RECURSIVE BigMulFrom(_, _, _, _)
BigMulFrom(a, k, i, carry) ==
    IF i > Len(a)
    THEN IF carry = 0 THEN <<>> ELSE <<carry>>
    ELSE LET t == a[i] * k + carry
         IN  <<t % LimbBase>> \o BigMulFrom(a, k, i + 1, t \div LimbBase)

\* a * k for 0 <= k < 2^15
BigMulSmall(a, k) == IF k = 0 THEN <<>> ELSE BigMulFrom(a, k, 1, 0)

\* the sequence s from its last element to its first
BigReverse(s) == [j \in 1..Len(s) |-> s[Len(s) + 1 - j]]

RECURSIVE BigDivModFrom(_, _, _, _)
\* the digits of the quotient by k of limbs i down to 1 of a, the highest
\* first, rem being the remainder of the limbs above
BigDivModFrom(a, k, i, rem) ==
    IF i = 0 THEN <<>>
    ELSE <<(rem * LimbBase + a[i]) \div k>>
         \o BigDivModFrom(a, k, i - 1, (rem * LimbBase + a[i]) % k)

\* quotient and remainder of a by k, 0 < k < 2^15; the remainder a - k * q
\* is below 2^15, so it is read from the lowest limbs
BigDivModOf(a, k, q) ==
    [q |-> q,
     r |-> (BigLimb(a, 1) + LimbBase - ((BigLimb(q, 1) * k) % LimbBase)) % LimbBase]

BigDivMod(a, k) ==
    BigDivModOf(a, k, BigTrim(BigReverse(BigDivModFrom(a, k, Len(a), 0))))

\* the highest limb in which a and b of one length differ, 0 when a = b
BigTopDiff(a, b) ==
    IF a = b THEN 0
    ELSE CHOOSE i \in 1..Len(a) : a[i] # b[i] /\ \A j \in (i + 1)..Len(a) : a[j] = b[j]

\* a[i] against b[i], 0 for i = 0
BigCmpAt(a, b, i) ==
    IF i = 0 THEN 0 ELSE IF a[i] > b[i] THEN 1 ELSE -1

\* -1, 0, 1 as a < b, a = b, a > b
BigCmp(a, b) ==
    IF Len(a) > Len(b) THEN 1
    ELSE IF Len(a) < Len(b) THEN -1
    ELSE BigCmpAt(a, b, BigTopDiff(a, b))

\* the number of bits of 0 <= k < 2^15
SmallBitLen(k) == CHOOSE n \in 0..LimbBits : k < Pow2(n) /\ (n = 0 \/ Pow2(n - 1) <= k)

BigBitLen(a) ==
    IF a = <<>> THEN 0 ELSE (Len(a) - 1) * LimbBits + SmallBitLen(a[Len(a)])

\* bit j of a, bit 0 the lowest
BigBit(a, j) == (BigLimb(a, j \div LimbBits + 1) \div Pow2(j % LimbBits)) % 2

\* some bit of a below bit j is set
BigAnyBelow(a, j) ==
    \/ \E i \in 1..Min2(Len(a), j \div LimbBits) : a[i] # 0
    \/ BigLimb(a, j \div LimbBits + 1) % Pow2(j % LimbBits) # 0

\* a * 2^r for 0 <= r < 15 and rest = 2^(15 - r): limb i takes the low
\* 15 - r bits of a[i] and the high r bits of a[i - 1]
BigShlBits(a, r, rest) ==
    BigTrim([i \in 1..(Len(a) + 1) |->
                (BigLimb(a, i) % rest) * Pow2(r)
                + (IF i = 1 THEN 0 ELSE a[i - 1] \div rest)])

\* a * 2^s
BigShl(a, s) ==
    IF a = <<>> THEN <<>>
    ELSE [i \in 1..(s \div LimbBits) |-> 0]
         \o BigShlBits(a, s % LimbBits, Pow2(LimbBits - (s % LimbBits)))

\* a \div 2^r for 0 <= r < 15 and rest = 2^(15 - r): limb i takes the high
\* 15 - r bits of a[i] and the low r bits of a[i + 1]
BigShrBits(a, r, rest) ==
    BigTrim([i \in 1..Len(a) |->
                a[i] \div Pow2(r) + (BigLimb(a, i + 1) % Pow2(r)) * rest])

\* a \div 2^s
BigShr(a, s) ==
    IF s \div LimbBits >= Len(a) THEN <<>>
    ELSE BigShrBits(SubSeq(a, s \div LimbBits + 1, Len(a)), s % LimbBits,
                    Pow2(LimbBits - (s % LimbBits)))

\* the natural of at most 53 significant bits nearest to the natural a, ties
\* to even: the double nearest to a, in the unit of a whatever that unit is
FRound(a) ==
    IF a = <<>> THEN <<>>
    ELSE
    LET s == BigBitLen(a) - 53
    IN  IF s <= 0 THEN a
        ELSE LET q == BigShr(a, s)
                 half == BigBit(a, s - 1) = 1
                 low == BigAnyBelow(a, s - 1)
                 up == half /\ (low \/ BigBit(q, 0) = 1)
             IN  BigShl(IF up THEN BigAdd(q, <<1>>) ELSE q, s)

\* float(k) for an int 0 <= k < 2^15
FOfInt(k) == IF k = 0 THEN <<>> ELSE BigShl(<<k>>, FracBits)

\* x + y
FAdd(x, y) ==
    IF x = <<>> THEN y
    ELSE IF y = <<>> THEN x
    ELSE FRound(BigAdd(x, y))

\* x * k for an int 0 <= k < 2^15
FMulInt(x, k) == IF x = <<>> \/ k = 0 THEN <<>> ELSE FRound(BigMulSmall(x, k))

\* x / n for an int 0 < n < 2^15: the quotient is taken to 2^-16 of a unit,
\* its last bit set when the division leaves a remainder, and rounded as a
\* number of that size
FDivInt(x, n) ==
    IF x = <<>> THEN <<>>
    ELSE
    LET dm == BigDivMod(BigShl(x, LimbBits), n)
    IN  BigShr(FRound(BigAdd(BigShl(dm.q, 1), IF dm.r # 0 THEN <<1>> ELSE <<>>)),
               LimbBits + 1)

RECURSIVE BigSubFrom(_, _, _, _)
BigSubFrom(a, b, i, borrow) ==
    IF i > Len(a) THEN <<>>
    ELSE LET t == a[i] - BigLimb(b, i) - borrow
         IN  <<(t + LimbBase) % LimbBase>> \o
             BigSubFrom(a, b, i + 1, IF t < 0 THEN 1 ELSE 0)

\* a - b for a >= b
BigSub(a, b) == BigTrim(BigSubFrom(a, b, 1, 0))

RECURSIVE BigMulFromLimb(_, _, _)
\* a * (the number made of limbs i and above of b)
BigMulFromLimb(a, b, i) ==
    IF i > Len(b) THEN <<>>
    ELSE BigAdd(BigMulSmall(a, b[i]), <<0>> \o BigMulFromLimb(a, b, i + 1))

\* a * b
BigMul(a, b) == BigTrim(BigMulFromLimb(a, b, 1))

RECURSIVE BigQuotDigitStep(_, _, _, _)
\* the largest d in lo..(lo + 8 * step - 1) with b * d <= r, given b * lo <= r
\* and step a power of 8 (or 0): the octal digits of d - lo from the highest
\* down
BigQuotDigitStep(r, b, lo, step) ==
    IF step = 0 THEN lo
    ELSE BigQuotDigitStep(r, b,
            lo + step * (CHOOSE j \in 0..7 :
                            /\ j = 0 \/ BigCmp(BigMulSmall(b, lo + j * step), r) <= 0
                            /\ j = 7 \/ BigCmp(BigMulSmall(b, lo + (j + 1) * step), r) > 0),
            step \div 8)

\* the largest d below 2^15 with b * d <= r, for r < b * 2^15
BigQuotDigit(r, b) == IF BigCmp(r, b) < 0 THEN 0 ELSE BigQuotDigitStep(r, b, 0, 4096)

RECURSIVE BigDivModLimbs(_, _, _, _)
\* long division by b of limbs i down to 1 of a, cur being the remainder of
\* the limbs above with limb i brought down: the digits of the quotient,
\* the highest first, and after them the remainder
BigDivModLimbs(a, b, i, cur) ==
    IF i = 1
    THEN <<BigQuotDigit(cur, b), BigSub(cur, BigMulSmall(b, BigQuotDigit(cur, b)))>>
    ELSE <<BigQuotDigit(cur, b)>>
         \o BigDivModLimbs(a, b, i - 1,
                BigTrim(<<a[i - 1]>>
                        \o BigSub(cur, BigMulSmall(b, BigQuotDigit(cur, b)))))

\* the digits and the remainder as a quotient and a remainder
BigDivModOfDigits(s) ==
    [q |-> BigTrim(BigReverse(SubSeq(s, 1, Len(s) - 1))), r |-> s[Len(s)]]

\* quotient and remainder of a by b, a > 0 and b > 0
BigDivModBig(a, b) == BigDivModOfDigits(BigDivModLimbs(a, b, Len(a), <<a[Len(a)]>>))

\* the value of a natural below 2^30
BigToInt(a) == BigLimb(a, 1) + LimbBase * BigLimb(a, 2)

\* x - y for x >= y
FSub(x, y) == IF x = <<>> \/ y = <<>> THEN x ELSE FRound(BigSub(x, y))

\* x * y: the exact product, in units of 2^-250, rounded as a number of that
\* size
FMul(x, y) ==
    IF x = <<>> \/ y = <<>> THEN <<>>
    ELSE BigShr(FRound(BigMul(x, y)), FracBits)

\* x / y for y > 0: the quotient is taken to 2^-16 of a unit, its last bit
\* set when the division leaves a remainder, and rounded as a number of that
\* size.  The z low limbs of y that are 0 are left out of the division, of x
\* shifted and of y alike.
FDiv(x, y) ==
    IF x = <<>> \/ y = <<>> THEN <<>>
    ELSE LET z == CHOOSE k \in 0..(Len(y) - 1) :
                     /\ k = Min2(Len(y) - 1, FracBits \div LimbBits) \/ y[k + 1] # 0
                     /\ \A j \in 1..k : y[j] = 0
             dm == BigDivModBig(BigShl(x, FracBits + LimbBits - z * LimbBits),
                                SubSeq(y, z + 1, Len(y)))
         IN  BigShr(FRound(BigAdd(BigShl(dm.q, 1),
                                  IF dm.r # <<>> THEN <<1>> ELSE <<>>)),
                    LimbBits + 1)

\* round(x, 2) in hundredths: the exact value of the double, ties to even
FRound2(x) ==
    IF x = <<>> THEN 0
    ELSE LET y == BigMulSmall(x, 100)
             q == BigShr(y, FracBits)
             up == /\ BigBit(y, FracBits - 1) = 1
                   /\ (BigAnyBelow(y, FracBits - 1) \/ BigBit(q, 0) = 1)
         IN  BigToInt(IF up THEN BigAdd(q, <<1>>) ELSE q)

----------------------------------------------------------------------------
(* rule_engine.py: results and rule objects                                 *)

\* a suggestion of None
NoSuggestion == "None"

\* RuleResult(passed, score, message, suggestion=None, severity=INFO, weight=1.0);
\* score is a double (an int score k is the double FOfInt(k), as k and
\* float(k) are equal and print and add alike)
RuleResult(passed, score, message, suggestion, severity, weight) ==
    [passed |-> passed, score |-> score, message |-> message,
     suggestion |-> suggestion, severity |-> severity, weight |-> weight]

\* the default of RuleResult.weight, 1.0, in tenths
DefaultResultWeight == 10

\* the constructors of the five concrete rules (weight in tenths)
ThreeColorRule(max_colors, weight) ==
    [cls |-> "ThreeColorRule", name |-> "three_color", weight |-> weight,
     enabled |-> TRUE, max_colors |-> max_colors]

LightTopDarkBottomRule(weight) ==
    [cls |-> "LightTopDarkBottomRule", name |-> "light_top_dark_bottom",
     weight |-> weight, enabled |-> TRUE]

ForbiddenColorComboRule(weight) ==
    [cls |-> "ForbiddenColorComboRule", name |-> "forbidden_color_combo",
     weight |-> weight, enabled |-> TRUE]

StyleCoordinationRule(weight) ==
    [cls |-> "StyleCoordinationRule", name |-> "style_coordination",
     weight |-> weight, enabled |-> TRUE]

ContextAppropriateRule(weight) ==
    [cls |-> "ContextAppropriateRule", name |-> "context_appropriate",
     weight |-> weight, enabled |-> TRUE]

\* the name a rule sees for one element of colors
color_name(color) ==
    IF IsTuple(color) THEN classify_color_type(color).name ELSE color.name

----------------------------------------------------------------------------
(* ThreeColorRule                                                           *)

neutral_colors == {"black", "white", "gray"}

RECURSIVE main_colors_with_repeats(_, _, _)
\* main_colors without the test "color_name not in main_colors"
main_colors_with_repeats(colors, i, acc) ==
    IF i > Len(colors) THEN acc
    ELSE LET n == color_name(colors[i])
         IN  IF n \notin {"black", "white", "gray"}
             THEN main_colors_with_repeats(colors, i + 1, Append(acc, n))
             ELSE main_colors_with_repeats(colors, i + 1, acc)

RECURSIVE main_colors(_, _, _)
\* the loop building main_colors: distinct non-neutral names in order
main_colors(colors, i, acc) ==
    IF i > Len(colors) THEN acc
    ELSE LET n == color_name(colors[i])
         IN  IF n \notin neutral_colors /\ ~(\E k \in 1..Len(acc) : acc[k] = n)
             THEN main_colors(colors, i + 1, Append(acc, n))
             ELSE main_colors(colors, i + 1, acc)

ThreeColorRule_evaluate_colors(self, colors, outfit_data) ==
    LET num_main_colors == Len(main_colors(colors, 1, <<>>))
    IN  IF num_main_colors <= self.max_colors
        THEN RuleResult(TRUE, FOfInt(100), "three_color_ok", NoSuggestion, "info",
                        self.weight)
        ELSE RuleResult(FALSE,
                        FOfInt(Max2(0, 100 - (num_main_colors - self.max_colors) * 20)),
                        "three_color_violated", "reduce_main_colors", "warning",
                        self.weight)

----------------------------------------------------------------------------
(* LightTopDarkBottomRule                                                   *)

\* brightness_map of get_brightness
brightness_map ==
    [black |-> 0, deep_blue |-> 50, deep_green |-> 50, deep_red |-> 50,
     deep_purple |-> 50, gray |-> 128, brown |-> 100, blue |-> 150, green |-> 150,
     red |-> 150, purple |-> 150, pale_blue |-> 200, pale_green |-> 200,
     pink |-> 220, pale_purple |-> 200, white |-> 255, pale_yellow |-> 240,
     yellow |-> 220, orange |-> 200]

\* get_brightness(color), in thousandths
get_brightness(color) ==
    IF IsTuple(color) THEN Brightness1000(color)
    ELSE 1000 * Get(brightness_map, color.name, 128)

RECURSIVE SumBrightness(_, _)
\* sum(get_brightness(c) for c in colors[i:]), in thousandths
SumBrightness(colors, i) ==
    IF i > Len(colors) THEN 0
    ELSE get_brightness(colors[i]) + SumBrightness(colors, i + 1)

\* the literals 0.299, 0.587 and 0.114 as doubles:
\* 5386305154335113 / 2^54, 2643612981266481 / 2^52, 8214565720323785 / 2^56
F0299 == <<0, 0, 0, 0, 18432, 1048, 7340, 18612, 9>>

F0587 == <<0, 0, 0, 0, 8192, 524, 3670, 25690, 18>>

F0114 == <<0, 0, 0, 0, 4608, 31195, 21757, 21233, 3>>

\* get_brightness(color) as the double the code computes
get_brightness_float(color) ==
    IF IsTuple(color)
    THEN FAdd(FAdd(FMulInt(F0299, color.r), FMulInt(F0587, color.g)),
              FMulInt(F0114, color.b))
    ELSE FOfInt(Get(brightness_map, color.name, 128))

\* sum(get_brightness(c) for c in colors) as the interpreter's builtin sum
\* computes it; before is its state before item i.  Every build adds from
\* the left: f is the running double.
\* From CPython 3.12 on, the rounding errors of the float additions are
\* collected in a second double c and added at the end (compensated);
\* exact is f + c as an exact number (the errors are multiples of 2^-56
\* below 2^-40, so c itself never rounds).  The first float item is added by
\* int + float and an int item (a named colour) by f += float(item): neither
\* feeds c, so their rounding errors are lost in every build.
RECURSIVE SumBrightnessFloat(_, _, _, _)
SumBrightnessFloat(compensated, colors, i, before) ==
    IF i > Len(colors)
    THEN (IF compensated /\ before.exact # before.f THEN FRound(before.exact)
          ELSE before.f)
    ELSE IF before.floats_seen /\ IsTuple(colors[i])
    THEN SumBrightnessFloat(compensated, colors, i + 1,
            [f |-> FAdd(before.f, get_brightness_float(colors[i])),
             exact |-> BigAdd(before.exact, get_brightness_float(colors[i])),
             floats_seen |-> TRUE])
    ELSE SumBrightnessFloat(compensated, colors, i + 1,
            [f |-> FAdd(before.f, get_brightness_float(colors[i])),
             exact |-> BigSub(BigAdd(before.exact,
                                     FAdd(before.f, get_brightness_float(colors[i]))),
                              before.f),
             floats_seen |-> before.floats_seen \/ IsTuple(colors[i])])

\* sum(...) / len(colors) as a double
average_brightness_float(compensated, colors) ==
    FDivInt(SumBrightnessFloat(compensated, colors, 1,
                               [f |-> <<>>, exact |-> <<>>, floats_seen |-> FALSE]),
            Len(colors))

\* top_brightness >= bottom_brightness.  The doubles are within 1e-9 of the
\* exact averages top / (1000 lt) and bottom / (1000 lb), which, unless
\* equal, are at least 1 / (1000 lt lb) apart: the exact averages decide but
\* for a tie, which the doubles decide.
top_not_darker(compensated, top_colors, bottom_colors) ==
    LET lhs == SumBrightness(top_colors, 1) * Len(bottom_colors)
        rhs == SumBrightness(bottom_colors, 1) * Len(top_colors)
    IN  IF lhs # rhs THEN lhs > rhs
        ELSE IF top_colors = bottom_colors THEN TRUE
        ELSE BigCmp(average_brightness_float(compensated, top_colors),
                    average_brightness_float(compensated, bottom_colors)) >= 0

\* max(0, 100 - x) for a double x >= 0
max_0_100_minus(x) ==
    IF x = <<>> THEN FOfInt(100)
    ELSE IF BigCmp(x, FOfInt(100)) >= 0 THEN <<>> ELSE FSub(FOfInt(100), x)

\* score = max(0, 100 - diff / 2) with diff = bottom_brightness -
\* top_brightness > 0, in doubles
light_top_score_float(top_brightness, bottom_brightness) ==
    max_0_100_minus(FDivInt(FSub(bottom_brightness, top_brightness), 2))

LightTopDarkBottomRule_evaluate_colors(compensated, self, colors, outfit_data) ==
    LET top_colors == Get(outfit_data, "top_colors", <<>>)
        bottom_colors == Get(outfit_data, "bottom_colors", <<>>)
    IN  IF top_colors = <<>> \/ bottom_colors = <<>>
        THEN RuleResult(TRUE, FOfInt(100), "no_top_bottom_colors", NoSuggestion, "info",
                        self.weight)
        ELSE IF top_not_darker(compensated, top_colors, bottom_colors)
        THEN RuleResult(TRUE, FOfInt(100), "light_top_ok", NoSuggestion, "info",
                        self.weight)
        ELSE RuleResult(FALSE,
                        light_top_score_float(
                            average_brightness_float(compensated, top_colors),
                            average_brightness_float(compensated, bottom_colors)),
                        "light_top_violated", "lighter_top_or_darker_bottom",
                        "warning", self.weight)

----------------------------------------------------------------------------
(* ForbiddenColorComboRule                                                  *)

\* forbidden_combos with the purple pair against yellow only, orange left out
forbidden_combos_purple_yellow_only ==
    << <<{"red", "deep_red", "pink"}, {"green", "deep_green", "pale_green"}>>,
       <<{"purple", "deep_purple", "pale_purple"}, {"yellow", "pale_yellow"}>>,
       <<{"blue", "deep_blue", "pale_blue"}, {"orange", "yellow", "pale_yellow"}>> >>

\* self.forbidden_combos
forbidden_combos ==
    << <<{"red", "deep_red", "pink"}, {"green", "deep_green", "pale_green"}>>,
       <<{"purple", "deep_purple", "pale_purple"}, {"yellow", "pale_yellow", "orange"}>>,
       <<{"blue", "deep_blue", "pale_blue"}, {"orange", "yellow", "pale_yellow"}>> >>

\* the violations list: one entry (the index of the combo) per combo present
violations(colors) ==
    LET color_set == {color_name(colors[i]) : i \in 1..Len(colors)}
        has(k) == /\ color_set \cap forbidden_combos[k][1] # {}
                  /\ color_set \cap forbidden_combos[k][2] # {}
    IN  SelectSeq([k \in 1..Len(forbidden_combos) |-> k], has)

ForbiddenColorComboRule_evaluate_colors(self, colors, outfit_data) ==
    IF violations(colors) = <<>>
    THEN RuleResult(TRUE, FOfInt(100), "no_forbidden_combo", NoSuggestion, "info",
                    self.weight)
    ELSE RuleResult(FALSE, FOfInt(50), "forbidden_combo_found", "avoid_complementary",
                    "error", self.weight)

----------------------------------------------------------------------------
(* StyleCoordinationRule                                                    *)

formal_styles == {"shirt", "coat", "leather_shoes"}

casual_styles == {"tshirt", "hoodie", "jeans", "slacks", "sneakers"}

get_style_type(style) ==
    IF style \in formal_styles THEN "formal"
    ELSE IF style \in casual_styles THEN "casual"
    ELSE "unknown"

\* the rule reporting a formal/casual mix as a conflict: 40, error, not passed
StyleCoordinationRule_evaluate_styles_mix_is_error(self, styles, outfit_data) ==
    LET top_type == get_style_type(Get(styles, "top", ""))
        bottom_type == get_style_type(Get(styles, "bottom", ""))
        shoe_type == get_style_type(Get(styles, "shoes", ""))
        types == SelectSeq(<<top_type, bottom_type, shoe_type>>,
                           LAMBDA t : t # "unknown")
        unique_types == {types[i] : i \in 1..Len(types)}
    IN  IF types = <<>>
        THEN RuleResult(TRUE, FOfInt(100), "style_unknown", NoSuggestion, "info",
                        self.weight)
        ELSE IF Cardinality(unique_types) = 1
        THEN RuleResult(TRUE, FOfInt(100), "style_uniform", NoSuggestion, "info",
                        self.weight)
        ELSE RuleResult(FALSE, FOfInt(40), "style_conflict", "unify_formal_or_casual",
                        "error", self.weight)

StyleCoordinationRule_evaluate_styles(self, styles, outfit_data) ==
    LET top_type == get_style_type(Get(styles, "top", ""))
        bottom_type == get_style_type(Get(styles, "bottom", ""))
        shoe_type == get_style_type(Get(styles, "shoes", ""))
        types == SelectSeq(<<top_type, bottom_type, shoe_type>>,
                           LAMBDA t : t # "unknown")
        unique_types == {types[i] : i \in 1..Len(types)}
    IN  IF types = <<>>
        THEN RuleResult(TRUE, FOfInt(100), "style_unknown", NoSuggestion, "info",
                        self.weight)
        ELSE IF Cardinality(unique_types) = 1
        THEN RuleResult(TRUE, FOfInt(100), "style_uniform", NoSuggestion, "info",
                        self.weight)
        ELSE IF Cardinality(unique_types) = 2
        THEN RuleResult(TRUE, FOfInt(70), "style_partly_mixed", "unify_style", "warning",
                        self.weight)
        ELSE RuleResult(FALSE, FOfInt(40), "style_conflict", "unify_formal_or_casual",
                        "error", self.weight)

----------------------------------------------------------------------------
(* ContextAppropriateRule                                                   *)

\* context_styles with work mapped to formal wear only
context_styles_work_formal ==
    [formal_occasion |-> {"formal"}, business |-> {"formal"},
     work |-> {"formal"}, casual |-> {"casual"}, sport |-> {"casual"},
     party |-> {"casual", "formal"}]

\* self.context_styles
context_styles ==
    [formal_occasion |-> {"formal"}, business |-> {"formal"},
     work |-> {"formal", "casual"}, casual |-> {"casual"}, sport |-> {"casual"},
     party |-> {"casual", "formal"}]

ContextAppropriateRule_evaluate_context(self, context, outfit_data) ==
    LET context_type == Get(context, "type", "")
        styles == Get(outfit_data, "styles", EmptyDict)
    IN  IF context_type = ""
        THEN RuleResult(TRUE, FOfInt(100), "no_context_type", NoSuggestion, "info",
                        self.weight)
        ELSE
        LET recommended_styles == Get(context_styles, context_type, {})
        IN  IF recommended_styles = {}
            THEN RuleResult(TRUE, FOfInt(100), "context_no_requirement", NoSuggestion,
                            "info", self.weight)
            ELSE
            LET worn == <<Get(styles, "top", ""), Get(styles, "bottom", ""),
                          Get(styles, "shoes", "")>>
                current_formal == AnyIn(worn, formal_styles)
                current_casual == AnyIn(worn, casual_styles)
                is_formal_ok == "formal" \in recommended_styles /\ current_formal
                is_casual_ok == "casual" \in recommended_styles /\ current_casual
            IN  IF is_formal_ok \/ is_casual_ok
                THEN RuleResult(TRUE, FOfInt(100), "context_ok", NoSuggestion, "info",
                                self.weight)
                ELSE IF "formal" \in recommended_styles
                THEN RuleResult(FALSE, FOfInt(60), "too_casual_for_context",
                                "choose_formal_pieces", "warning", self.weight)
                ELSE RuleResult(FALSE, FOfInt(60), "too_formal_for_context",
                                "choose_casual_pieces", "warning", self.weight)

----------------------------------------------------------------------------
(* ColorRule.evaluate, StyleRule.evaluate, ContextRule.evaluate             *)

ColorRuleClasses ==
    {"ThreeColorRule", "LightTopDarkBottomRule", "ForbiddenColorComboRule"}

\* ColorRule.evaluate handing every colours list, empty or not, to the subtype
ColorRule_evaluate_unguarded(compensated, self, outfit_data) ==
    LET colors == Get(outfit_data, "colors", <<>>)
    IN  CASE self.cls = "ThreeColorRule" ->
                ThreeColorRule_evaluate_colors(self, colors, outfit_data)
          [] self.cls = "LightTopDarkBottomRule" ->
                LightTopDarkBottomRule_evaluate_colors(compensated, self, colors, outfit_data)
          [] self.cls = "ForbiddenColorComboRule" ->
                ForbiddenColorComboRule_evaluate_colors(self, colors, outfit_data)

ColorRule_evaluate(compensated, self, outfit_data) ==
    LET colors == Get(outfit_data, "colors", <<>>)
    IN  IF colors = <<>>
        THEN RuleResult(TRUE, FOfInt(100), "no_colors_skipped", NoSuggestion, "info",
                        DefaultResultWeight)
        ELSE CASE self.cls = "ThreeColorRule" ->
                    ThreeColorRule_evaluate_colors(self, colors, outfit_data)
               [] self.cls = "LightTopDarkBottomRule" ->
                    LightTopDarkBottomRule_evaluate_colors(compensated, self, colors, outfit_data)
               [] self.cls = "ForbiddenColorComboRule" ->
                    ForbiddenColorComboRule_evaluate_colors(self, colors, outfit_data)

StyleRule_evaluate(self, outfit_data) ==
    LET styles == Get(outfit_data, "styles", EmptyDict)
    IN  IF DOMAIN styles = {}
        THEN RuleResult(TRUE, FOfInt(100), "no_styles_skipped", NoSuggestion, "info",
                        DefaultResultWeight)
        ELSE StyleCoordinationRule_evaluate_styles(self, styles, outfit_data)

ContextRule_evaluate(self, outfit_data) ==
    LET context == Get(outfit_data, "context", EmptyDict)
    IN  IF DOMAIN context = {}
        THEN RuleResult(TRUE, FOfInt(100), "no_context_skipped", NoSuggestion, "info",
                        DefaultResultWeight)
        ELSE ContextAppropriateRule_evaluate_context(self, context, outfit_data)

\* rule.evaluate(outfit_data): dispatch on the class of the rule
evaluate(compensated, rule, outfit_data) ==
    IF rule.cls \in ColorRuleClasses THEN ColorRule_evaluate(compensated, rule, outfit_data)
    ELSE IF rule.cls = "StyleCoordinationRule" THEN StyleRule_evaluate(rule, outfit_data)
    ELSE ContextRule_evaluate(rule, outfit_data)

\* rule.evaluate(outfit_data) raises: a colour rule given colours meets a
\* tuple it cannot take apart. In LightTopDarkBottomRule r, g, b = color
\* raises ValueError on a tuple that is not of length three; in the other two
\* classify_color_type(rgb) raises IndexError at rgb[2] on a shorter tuple.
evaluate_raises(rule, outfit_data) ==
    LET colors == Get(outfit_data, "colors", <<>>)
        top_colors == Get(outfit_data, "top_colors", <<>>)
        bottom_colors == Get(outfit_data, "bottom_colors", <<>>)
    IN  /\ rule.cls \in ColorRuleClasses
        /\ colors # <<>>
        /\ IF rule.cls = "LightTopDarkBottomRule"
           THEN /\ top_colors # <<>>
                /\ bottom_colors # <<>>
                /\ \E c \in {top_colors[i] : i \in 1..Len(top_colors)}
                           \cup {bottom_colors[i] : i \in 1..Len(bottom_colors)} :
                      IsTuple(c) /\ DOMAIN c # {"r", "g", "b"}
           ELSE \E i \in 1..Len(colors) :
                   IsTuple(colors[i]) /\ "b" \notin DOMAIN colors[i]

----------------------------------------------------------------------------
(* RuleLibrary                                                              *)

\* the default rules with the style rule loaded before the colour rules
load_default_rules_style_first ==
    LET made == << StyleCoordinationRule(15), ThreeColorRule(3, 15),
                   LightTopDarkBottomRule(12), ForbiddenColorComboRule(18),
                   ContextAppropriateRule(13) >>
    IN  [i \in 1..5 |-> ("id" :> i) @@ made[i]]

\* RuleLibrary.__init__ / _load_default_rules: weights 1.5, 1.2, 1.8, 1.5, 1.3.
\* The list holds references: a registered rule is the constructed record
\* with the identity of its object in the field id, and two positions with
\* one id are one object.
load_default_rules ==
    LET made == << ThreeColorRule(3, 15), LightTopDarkBottomRule(12),
                   ForbiddenColorComboRule(18), StyleCoordinationRule(15),
                   ContextAppropriateRule(13) >>
    IN  [i \in 1..5 |-> ("id" :> i) @@ made[i]]

\* self.rules.append(rule): the reference handed in, id included
add_rule(rs, rule) == Append(rs, rule)

remove_rule(rs, rule_name) == SelectSeq(rs, LAMBDA r : r.name # rule_name)

\* get_rule: the index of the first rule with that name, 0 for None
get_rule(rs, rule_name) ==
    IF \E i \in 1..Len(rs) : rs[i].name = rule_name
    THEN CHOOSE i \in 1..Len(rs) :
            /\ rs[i].name = rule_name
            /\ \A j \in 1..(i - 1) : rs[j].name # rule_name
    ELSE 0

\* rule.enabled = True on the object get_rule returns, which shows at every
\* position that holds this object
enable_rule(rs, rule_name) ==
    LET i == get_rule(rs, rule_name)
    IN  IF i # 0
        THEN [j \in 1..Len(rs) |->
                IF rs[j].id = rs[i].id THEN [rs[j] EXCEPT !.enabled = TRUE] ELSE rs[j]]
        ELSE rs

\* disable_rule switching off every rule from the named one to the end
disable_rule_to_the_end(rs, rule_name) ==
    LET i == get_rule(rs, rule_name)
    IN  IF i # 0
        THEN [j \in 1..Len(rs) |-> IF j >= i THEN [rs[j] EXCEPT !.enabled = FALSE] ELSE rs[j]]
        ELSE rs

disable_rule(rs, rule_name) ==
    LET i == get_rule(rs, rule_name)
    IN  IF i # 0
        THEN [j \in 1..Len(rs) |->
                IF rs[j].id = rs[i].id THEN [rs[j] EXCEPT !.enabled = FALSE] ELSE rs[j]]
        ELSE rs

\* get_enabled_rules keeping one rule per name, as a dict keyed by name would
get_enabled_rules_one_per_name(rs) ==
    LET kept[k \in 0..Len(rs)] ==
            IF k = 0 THEN <<>>
            ELSE IF rs[k].enabled /\ \A j \in 1..(k - 1) : rs[j].name # rs[k].name
                 THEN Append(kept[k - 1], rs[k])
                 ELSE kept[k - 1]
    IN  kept[Len(rs)]

get_enabled_rules(rs) == SelectSeq(rs, LAMBDA r : r.enabled)

----------------------------------------------------------------------------
(* RuleEvaluator                                                            *)

\* opt or default, for a list argument
OrList(opt, default) ==
    IF opt = None THEN default ELSE IF opt[1] = <<>> THEN default ELSE opt[1]

\* opt or {}, for a dict argument
OrDict(opt) == IF opt = None THEN EmptyDict ELSE opt[1]

RECURSIVE SumSeq(_, _)
\* the sum of the naturals f[i..]
SumSeq(f, i) == IF i > Len(f) THEN <<>> ELSE BigAdd(f[i], SumSeq(f, i + 1))

RECURSIVE SumInt(_, _)
SumInt(f, i) == IF i > Len(f) THEN 0 ELSE f[i] + SumInt(f, i + 1)

\* outfit_data with top_colors or [] and bottom_colors or []
outfit_data_of_empty_defaults(colors, styles, context, top_colors, bottom_colors) ==
    [colors |-> OrList(colors, <<>>),
     styles |-> OrDict(styles),
     context |-> OrDict(context),
     top_colors |-> OrList(top_colors, <<>>),
     bottom_colors |-> OrList(bottom_colors, <<>>)]

\* outfit_data of evaluate_outfit: the arguments with their "or" defaults
outfit_data_of(colors, styles, context, top_colors, bottom_colors) ==
    [colors |-> OrList(colors, <<>>),
     styles |-> OrDict(styles),
     context |-> OrDict(context),
     top_colors |-> OrList(top_colors, OrList(colors, <<>>)),
     bottom_colors |-> OrList(bottom_colors, OrList(colors, <<>>))]

\* result.weight = rule.weight; one entry of report['results']
result_entry(rule, result) ==
    [rule_name |-> rule.name,
     passed |-> result.passed,
     score |-> result.score,
     message |-> result.message,
     suggestion |-> result.suggestion,
     severity |-> result.severity,
     weight |-> rule.weight]

\* the loop over the enabled rules: result = rule.evaluate(outfit_data)
rule_results_of(compensated, enabled, outfit_data) ==
    [i \in 1..Len(enabled) |-> result_entry(enabled[i], evaluate(compensated, enabled[i], outfit_data))]

\* 10 * len(rule_results): the number of rules for the sum of their weights
total_weight_of_counting_rules(rule_results) == 10 * Len(rule_results)

\* the sum of result.weight, in tenths
total_weight_of(rule_results) ==
    SumInt([i \in 1..Len(rule_results) |-> rule_results[i].weight], 1)

\* the sum of the scores with every weight taken as 1.0
total_weighted_score_unweighted(rule_results) ==
    SumSeq([i \in 1..Len(rule_results) |-> BigMulSmall(rule_results[i].score, 10)], 1)

\* the sum of result.score * result.weight as an exact number, in tenths of
\* a unit, the weights being whole tenths
total_weighted_score_of(rule_results) ==
    SumSeq([i \in 1..Len(rule_results) |->
              BigMulSmall(rule_results[i].score, rule_results[i].weight)], 1)

\* a weight of w tenths as a double
weight_as_double(w) == FDivInt(FOfInt(w), 10)

RECURSIVE total_weighted_score_float(_, _, _)
\* total_weighted_score += result.score * result.weight, in doubles
total_weighted_score_float(rule_results, i, acc) ==
    IF i > Len(rule_results) THEN acc
    ELSE total_weighted_score_float(rule_results, i + 1,
            FAdd(acc, FMul(rule_results[i].score,
                           weight_as_double(rule_results[i].weight))))

RECURSIVE total_weight_float(_, _, _)
\* total_weight += result.weight, in doubles
total_weight_float(rule_results, i, acc) ==
    IF i > Len(rule_results) THEN acc
    ELSE total_weight_float(rule_results, i + 1,
                            FAdd(acc, weight_as_double(rule_results[i].weight)))

\* overall_score = total_weighted_score / total_weight, in doubles
overall_score_float(rule_results) ==
    FDiv(total_weighted_score_float(rule_results, 1, <<>>),
         total_weight_float(rule_results, 1, <<>>))

\* the exact quotient q (hundredths, in units) lies within 2^-20 of a
\* hundredth of the middle between two hundredths
NearHalfWayBetweenHundredths(q) ==
    \A j \in (FracBits - 21)..(FracBits - 2) : BigBit(q, j) # BigBit(q, FracBits - 1)

\* round(overall_score, 2), in hundredths, for total_weight > 0 and
\* q = 100 * weighted / total_weight, the exact quotient in units.  The
\* double overall_score is within 1e-11 of the exact quotient (each of the
\* products, additions and the division is off by 2^-53 of its value at
\* most, and so is each weight), so the hundredth nearest to q is the
\* hundredth nearest to the double unless q is near the middle between two
\* hundredths; there the double decides.
Round2(q, rule_results) ==
    IF NearHalfWayBetweenHundredths(q)
    THEN FRound2(overall_score_float(rule_results))
    ELSE BigToInt(BigShr(q, FracBits)) + BigBit(q, FracBits - 1)

\* round(overall_score, 2), in hundredths; 0 when total_weight is not
\* positive
overall_score(weighted, total_weight, rule_results) ==
    IF total_weight > 0
    THEN Round2(BigDivMod(BigMulSmall(weighted, 100), total_weight).q, rule_results)
    ELSE 0

\* report['suggestions'] from the results that carry a suggestion
suggestions_of(with_suggestion) ==
    [i \in 1..Len(with_suggestion) |->
        [rule |-> with_suggestion[i].rule_name,
         suggestion |-> with_suggestion[i].suggestion,
         severity |-> with_suggestion[i].severity]]

\* a report that also fails on warnings
build_report_failing_on_warnings(rule_results, score, error_count, warning_count) ==
    [score |-> score,
     passed |-> (error_count = 0 /\ warning_count = 0),
     results |-> rule_results,
     suggestions |-> suggestions_of(SelectSeq(rule_results,
                        LAMBDA r : r.suggestion \notin {NoSuggestion, ""})),
     summary |-> [total_rules |-> Len(rule_results),
                  passed_rules |-> Len(SelectSeq(rule_results, LAMBDA r : r.passed)),
                  failed_rules |-> Len(SelectSeq(rule_results, LAMBDA r : ~r.passed)),
                  errors |-> error_count,
                  warnings |-> warning_count]]

\* a report whose failed_rules counts the errors only
build_report_failed_as_errors(rule_results, score, error_count, warning_count) ==
    [score |-> score,
     passed |-> (error_count = 0),
     results |-> rule_results,
     suggestions |-> suggestions_of(SelectSeq(rule_results,
                        LAMBDA r : r.suggestion \notin {NoSuggestion, ""})),
     summary |-> [total_rules |-> Len(rule_results),
                  passed_rules |-> Len(SelectSeq(rule_results, LAMBDA r : r.passed)),
                  failed_rules |-> error_count,
                  errors |-> error_count,
                  warnings |-> warning_count]]

\* the report built from the list of rule results
build_report(rule_results, score, error_count, warning_count) ==
    [score |-> score,
     passed |-> (error_count = 0),
     results |-> rule_results,
     suggestions |-> suggestions_of(SelectSeq(rule_results,
                        LAMBDA r : r.suggestion \notin {NoSuggestion, ""})),
     summary |-> [total_rules |-> Len(rule_results),
                  passed_rules |-> Len(SelectSeq(rule_results, LAMBDA r : r.passed)),
                  failed_rules |-> Len(SelectSeq(rule_results, LAMBDA r : ~r.passed)),
                  errors |-> error_count,
                  warnings |-> warning_count]]

report_of(rule_results, score) ==
    build_report(rule_results, score,
                 Len(SelectSeq(rule_results, LAMBDA r : r.severity = "error")),
                 Len(SelectSeq(rule_results, LAMBDA r : r.severity = "warning")))

\* the report of the results of the enabled rules with its aggregate score
report_with_score(rule_results) ==
    report_of(rule_results,
              overall_score(total_weighted_score_of(rule_results),
                            total_weight_of(rule_results), rule_results))

evaluate_outfit_on(compensated, enabled, outfit_data) ==
    report_with_score(rule_results_of(compensated, enabled, outfit_data))

evaluate_outfit(compensated, rs, colors, styles, context, top_colors, bottom_colors) ==
    evaluate_outfit_on(compensated, get_enabled_rules(rs),
                       outfit_data_of(colors, styles, context, top_colors, bottom_colors))

\* configure_rule(rule_name, weight=None, enabled=None) on the library rs
configure_rule(rs, rule_name, weight, enabled) ==
    LET i == get_rule(rs, rule_name)
    IN  IF i = 0 THEN rs
        ELSE LET r1 == IF weight # None THEN [rs[i] EXCEPT !.weight = weight[1]] ELSE rs[i]
                 r2 == IF enabled # None THEN [r1 EXCEPT !.enabled = enabled[1]] ELSE r1
             IN  [j \in 1..Len(rs) |-> IF rs[j].id = rs[i].id THEN r2 ELSE rs[j]]

----------------------------------------------------------------------------
(* Bounds and input sets                                                    *)

\* longest colors list handed to evaluate_outfit
MaxOutfitColors == 2

\* longest colors list handed to a single colour rule
MaxRuleColors == 4

\* longest top_colors / bottom_colors list handed to LightTopDarkBottomRule
MaxTopBottom == 2

\* longest list handed to evaluate_color_combo
MaxComboLen == 4

Black == RGB(0, 0, 0)

White == RGB(255, 255, 255)

\* channel values of the RGB inputs of classify_color_type
Levels == {0, 20, 40, 60, 100, 128, 165, 200, 230, 255}

\* colours of the lists handed to evaluate_color_combo
ComboPalette ==
    { RGB(255, 0, 0), RGB(0, 255, 0), RGB(0, 0, 255), Black, White,
      RGB(255, 165, 0), RGB(128, 0, 128), RGB(255, 255, 0), RGB(230, 30, 30) }

\* colours of the lists handed to ThreeColorRule and ForbiddenColorComboRule
RulePalette ==
    { RGB(255, 0, 0), RGB(0, 255, 0), RGB(0, 0, 255), RGB(255, 255, 0), White,
      RGB(255, 165, 0), Named("purple") }

\* colours of the top / bottom lists handed to LightTopDarkBottomRule
BrightPalette ==
    { Black, White, RGB(100, 150, 200), RGB(128, 128, 128), Named("yellow"),
      Named("pale_blue"), Named("navy") }

\* top_colors / bottom_colors lists of three and four colours whose float
\* sum depends on the order of the list and on the interpreter's sum()
SumOrderLists ==
    { <<RGB(167, 210, 197), RGB(184, 232, 179), RGB(11, 235, 137), RGB(140, 164, 25)>>,
      <<RGB(11, 235, 137), RGB(140, 164, 25), RGB(167, 210, 197), RGB(184, 232, 179)>>,
      <<RGB(242, 43, 1), RGB(83, 169, 252), RGB(188, 31, 39)>>,
      <<RGB(188, 31, 39), RGB(83, 169, 252), RGB(242, 43, 1)>> }

\* max_colors of the ThreeColorRule instances evaluated alone
MaxColorsChoices == {-2, 0, 3}

Slots == {"top", "bottom", "shoes"}

StyleLabels == {"shirt", "leather_shoes", "tshirt", "jeans", "dress"}

\* every styles dict over a subset of the slots
StylesDicts == UNION {[S -> StyleLabels] : S \in SUBSET Slots}

ContextTypes == {"formal_occasion", "business", "work", "casual", "sport", "party",
                 "wedding", ""}

\* context dicts: {}, {'type': t}, and one without the key 'type'
ContextDicts ==
    {EmptyDict} \cup {[k \in {"type"} |-> t] : t \in ContextTypes}
    \cup {[k \in {"season"} |-> "summer"]}

\* every dict with the keys K taken from d
Restrict(d, K) == [k \in K |-> d[k]]

----------------------------------------------------------------------------
(* Calls to the pure colour functions (SpecColor)                           *)

NoCall == [op |-> "none"]

InitColor ==
    /\ rules = load_default_rules
    /\ pc = "call"
    /\ \/ \E r \in Levels, g \in Levels, b \in Levels :
             call = [op |-> "classify_color_type", rgb |-> RGB(r, g, b)]
       \/ \E l \in SeqsUpTo(ComboPalette, MaxComboLen) :
             call = [op |-> "evaluate_color_combo", colors_list |-> l]
    /\ ret = None
    /\ compensated_sum \in BOOLEAN

ClassifyColorType ==
    /\ pc = "call"
    /\ call.op = "classify_color_type"
    /\ ret' = classify_color_type(call.rgb)
    /\ pc' = "done"
    /\ UNCHANGED <<rules, call>>
    /\ UNCHANGED compensated_sum

EvaluateColorCombo ==
    /\ pc = "call"
    /\ call.op = "evaluate_color_combo"
    /\ ret' = evaluate_color_combo(call.colors_list)
    /\ pc' = "done"
    /\ UNCHANGED <<rules, call>>
    /\ UNCHANGED compensated_sum

NextColor == ClassifyColorType \/ EvaluateColorCombo

SpecColor == InitColor /\ [][NextColor]_vars

----------------------------------------------------------------------------
(* One rule evaluated alone, as the unit tests do (SpecRule)                *)

RuleCall(rule, outfit_data) ==
    [op |-> "evaluate", rule |-> rule, outfit_data |-> outfit_data]

ColorsData(l) == [k \in {"colors"} |-> l]

TopBottomData(c, t, b) == [colors |-> c, top_colors |-> t, bottom_colors |-> b]

StylesData == {[k \in {"styles"} |-> d] : d \in StylesDicts} \cup {EmptyDict}

ContextData ==
    {[context |-> c, styles |-> d] : c \in ContextDicts, d \in StylesDicts}
    \cup {[k \in {"context"} |-> c] : c \in ContextDicts}
    \cup {EmptyDict}

InitRule ==
    /\ rules = load_default_rules
    /\ pc = "call"
    /\ \/ \E m \in MaxColorsChoices, l \in SeqsUpTo(RulePalette, MaxRuleColors) :
             call = RuleCall(ThreeColorRule(m, 15), ColorsData(l))
       \/ \E c \in {<<>>, <<White>>}, t \in SeqsUpTo(BrightPalette, MaxTopBottom),
             b \in SeqsUpTo(BrightPalette, MaxTopBottom) :
             call = RuleCall(LightTopDarkBottomRule(12), TopBottomData(c, t, b))
       \/ \E t \in SumOrderLists, b \in SumOrderLists :
             call = RuleCall(LightTopDarkBottomRule(12), TopBottomData(<<White>>, t, b))
       \/ call = RuleCall(LightTopDarkBottomRule(12), ColorsData(<<White>>))
       \/ \E l \in SeqsUpTo(RulePalette, MaxRuleColors) :
             call = RuleCall(ForbiddenColorComboRule(18), ColorsData(l))
       \/ call = RuleCall(ForbiddenColorComboRule(18), EmptyDict)
       \/ \E d \in StylesData : call = RuleCall(StyleCoordinationRule(15), d)
       \/ \E d \in ContextData : call = RuleCall(ContextAppropriateRule(13), d)
    /\ ret = None
    /\ compensated_sum \in BOOLEAN

EvaluateRule(cls) ==
    /\ pc = "call"
    /\ call.op = "evaluate"
    /\ call.rule.cls = cls
    /\ ret' = evaluate(compensated_sum, call.rule, call.outfit_data)
    /\ pc' = "done"
    /\ UNCHANGED <<rules, call>>
    /\ UNCHANGED compensated_sum

EvaluateThreeColorRule == EvaluateRule("ThreeColorRule")

EvaluateLightTopDarkBottomRule == EvaluateRule("LightTopDarkBottomRule")

EvaluateForbiddenColorComboRule == EvaluateRule("ForbiddenColorComboRule")

EvaluateStyleCoordinationRule == EvaluateRule("StyleCoordinationRule")

EvaluateContextAppropriateRule == EvaluateRule("ContextAppropriateRule")

NextRule ==
    \/ EvaluateThreeColorRule
    \/ EvaluateLightTopDarkBottomRule
    \/ EvaluateForbiddenColorComboRule
    \/ EvaluateStyleCoordinationRule
    \/ EvaluateContextAppropriateRule

SpecRule == InitRule /\ [][NextRule]_vars

----------------------------------------------------------------------------
(* The evaluator and its library (Spec)                                     *)

\* colours of the colors lists handed to evaluate_outfit
OutfitPalette == { White, RGB(255, 0, 0), Named("green") }

OutfitColors == {None} \cup {Some(l) : l \in SeqsUpTo(OutfitPalette, MaxOutfitColors)}

\* (top_colors, bottom_colors) handed to evaluate_outfit
OutfitTopBottom ==
    { <<None, None>>, <<Some(<<Black>>), Some(<<White>>)>>,
      <<None, Some(<<White>>)>> }

CasualStyles == [top |-> "tshirt", bottom |-> "jeans", shoes |-> "sneakers"]

MixedStyles == [top |-> "tshirt", bottom |-> "jeans", shoes |-> "leather_shoes"]

\* (styles, context) handed to evaluate_outfit
OutfitStylesContext ==
    { <<None, None>>,
      <<Some(CasualStyles), Some([k \in {"type"} |-> "formal_occasion"])>>,
      <<Some(CasualStyles), Some([k \in {"type"} |-> "casual"])>>,
      <<Some(MixedStyles), None>>,
      <<None, Some([k \in {"type"} |-> "business"])>> }

\* weights (tenths) given to configure_rule
WeightChoices == {5}

\* names given to enable_rule and disable_rule
RuleNames == {load_default_rules[i].name : i \in 1..Len(load_default_rules)}
             \cup {"no_such_rule"}

\* names given to configure_rule
ConfiguredNames == {"light_top_dark_bottom", "forbidden_color_combo", "no_such_rule"}

Init ==
    /\ rules = load_default_rules
    /\ pc = "idle"
    /\ call = NoCall
    /\ ret = None
    /\ compensated_sum \in BOOLEAN

\* a call that hands rule.weight the weight of the result (1.0)
evaluate_outfit_call_writing_weights(colors, styles, context, top_colors, bottom_colors) ==
    /\ ret' = evaluate_outfit(compensated_sum, rules, colors, styles, context, top_colors, bottom_colors)
    /\ rules' = [i \in 1..Len(rules) |->
                    IF rules[i].enabled
                    THEN [rules[i] EXCEPT !.weight = DefaultResultWeight]
                    ELSE rules[i]]

\* the effect of one call of evaluator.evaluate_outfit(...): the report is
\* returned, the library is only read
evaluate_outfit_call(colors, styles, context, top_colors, bottom_colors) ==
    /\ ret' = evaluate_outfit(compensated_sum, rules, colors, styles, context, top_colors, bottom_colors)
    /\ UNCHANGED rules

EvaluateOutfit ==
    /\ pc = "idle"
    /\ \E colors \in OutfitColors, tb \in OutfitTopBottom, sc \in OutfitStylesContext :
          /\ call' = [op |-> "evaluate_outfit", colors |-> colors, styles |-> sc[1],
                      context |-> sc[2], top_colors |-> tb[1], bottom_colors |-> tb[2]]
          /\ evaluate_outfit_call(colors, sc[1], sc[2], tb[1], tb[2])
    /\ pc' = "done"
    /\ UNCHANGED compensated_sum

\* the caller takes the report
Return ==
    /\ pc = "done"
    /\ pc' = "idle"
    /\ call' = NoCall
    /\ ret' = None
    /\ UNCHANGED rules
    /\ UNCHANGED compensated_sum

EnableRule ==
    /\ pc = "idle"
    /\ \E n \in RuleNames : rules' = enable_rule(rules, n)
    /\ UNCHANGED <<pc, call, ret>>
    /\ UNCHANGED compensated_sum

DisableRule ==
    /\ pc = "idle"
    /\ \E n \in RuleNames : rules' = disable_rule(rules, n)
    /\ UNCHANGED <<pc, call, ret>>
    /\ UNCHANGED compensated_sum

ConfigureRule ==
    /\ pc = "idle"
    /\ \E n \in ConfiguredNames, w \in {None} \cup {Some(x) : x \in WeightChoices},
          e \in {None, Some(TRUE), Some(FALSE)} :
          rules' = configure_rule(rules, n, w, e)
    /\ UNCHANGED <<pc, call, ret>>
    /\ UNCHANGED compensated_sum

Next == EvaluateOutfit \/ Return \/ EnableRule \/ DisableRule \/ ConfigureRule

Spec == Init /\ [][Next]_vars

----------------------------------------------------------------------------
(* The library under add_rule and remove_rule (SpecLib)                     *)

\* the most rules the library holds
MaxRules == 6

\* the rule handed to add_rule, as constructed: a second rule named like the
\* default ThreeColorRule
AddedRule == ThreeColorRule(2, 20)

\* the rule handed to add_custom_rule
CustomRule == ThreeColorRule(4, 10)

\* names given to the operations of the library
LibNames == {"three_color", "light_top_dark_bottom", "no_such_rule"}

\* colors lists handed to evaluate_outfit
LibColors ==
    { None, Some(<<>>), Some(<<White>>), Some(<<RGB(255, 0, 0), Named("green")>>),
      Some(<<Black, RGB(100, 150, 200), White>>) }

\* (top_colors, bottom_colors) handed to evaluate_outfit
LibTopBottom ==
    { <<None, None>>, <<Some(<<>>), Some(<<>>)>>, <<None, Some(<<>>)>>,
      <<Some(<<Black>>), None>>, <<None, Some(<<Black>>)>>,
      <<Some(<<RGB(100, 150, 200)>>), Some(<<>>)>>, <<Some(<<Black>>), Some(<<White>>)>> }

InitLib ==
    /\ rules = load_default_rules
    /\ pc = "idle"
    /\ call = NoCall
    /\ ret = None
    /\ compensated_sum \in BOOLEAN

\* lib.add_rule(rule).  The caller hands in a reference: to a rule object
\* that is not registered (made as AddedRule, with an id no registered object
\* has, enabled as constructed or switched off by its holder), or to one made
\* that way that the library already holds, which then sits at two positions.
AddRule ==
    /\ pc = "idle"
    /\ Len(rules) < MaxRules
    /\ \E rule \in
          { ("id" :> (CHOOSE k \in 1..(Len(rules) + 1) :
                         \A j \in 1..Len(rules) : rules[j].id # k))
               @@ [AddedRule EXCEPT !.enabled = e] : e \in BOOLEAN }
          \cup { rules[j] : j \in {i \in 1..Len(rules) :
                                     /\ rules[i].cls = AddedRule.cls
                                     /\ rules[i].max_colors = AddedRule.max_colors} } :
          /\ call' = [op |-> "add_rule", rule |-> rule]
          /\ rules' = add_rule(rules, rule)
    /\ ret' = None
    /\ pc' = "done"
    /\ UNCHANGED compensated_sum

\* evaluator.add_custom_rule(rule): self.rule_library.add_rule(rule), with a
\* rule object made as CustomRule, not registered or already registered
AddCustomRule ==
    /\ pc = "idle"
    /\ Len(rules) < MaxRules
    /\ \E rule \in
          { ("id" :> (CHOOSE k \in 1..(Len(rules) + 1) :
                         \A j \in 1..Len(rules) : rules[j].id # k))
               @@ [CustomRule EXCEPT !.enabled = e] : e \in BOOLEAN }
          \cup { rules[j] : j \in {i \in 1..Len(rules) :
                                     /\ rules[i].cls = CustomRule.cls
                                     /\ rules[i].max_colors = CustomRule.max_colors} } :
          /\ call' = [op |-> "add_custom_rule", rule |-> rule]
          /\ rules' = add_rule(rules, rule)
    /\ ret' = None
    /\ pc' = "done"
    /\ UNCHANGED compensated_sum

RemoveRule ==
    /\ pc = "idle"
    /\ \E n \in LibNames :
          /\ call' = [op |-> "remove_rule", name |-> n]
          /\ rules' = remove_rule(rules, n)
    /\ ret' = None
    /\ pc' = "done"
    /\ UNCHANGED compensated_sum

GetRule ==
    /\ pc = "idle"
    /\ \E n \in LibNames :
          /\ call' = [op |-> "get_rule", name |-> n]
          /\ ret' = IF get_rule(rules, n) = 0 THEN None
                    ELSE Some(rules[get_rule(rules, n)])
    /\ pc' = "done"
    /\ UNCHANGED rules
    /\ UNCHANGED compensated_sum

LibEnableRule ==
    /\ pc = "idle"
    /\ \E n \in LibNames :
          /\ call' = [op |-> "enable_rule", name |-> n]
          /\ rules' = enable_rule(rules, n)
    /\ ret' = None
    /\ pc' = "done"
    /\ UNCHANGED compensated_sum

LibDisableRule ==
    /\ pc = "idle"
    /\ \E n \in LibNames :
          /\ call' = [op |-> "disable_rule", name |-> n]
          /\ rules' = disable_rule(rules, n)
    /\ ret' = None
    /\ pc' = "done"
    /\ UNCHANGED compensated_sum

LibConfigureRule ==
    /\ pc = "idle"
    /\ \E n \in LibNames, w \in {None, Some(0)}, e \in {None, Some(FALSE)} :
          /\ call' = [op |-> "configure_rule", name |-> n, weight |-> w, enabled |-> e]
          /\ rules' = configure_rule(rules, n, w, e)
    /\ ret' = None
    /\ pc' = "done"
    /\ UNCHANGED compensated_sum

LibEvaluateOutfit ==
    /\ pc = "idle"
    /\ \E colors \in LibColors, tb \in LibTopBottom :
          /\ call' = [op |-> "evaluate_outfit", colors |-> colors, styles |-> None,
                      context |-> None, top_colors |-> tb[1], bottom_colors |-> tb[2]]
          /\ evaluate_outfit_call(colors, None, None, tb[1], tb[2])
    /\ pc' = "done"
    /\ UNCHANGED compensated_sum

NextLib ==
    \/ AddRule \/ AddCustomRule \/ RemoveRule \/ GetRule \/ LibEnableRule
    \/ LibDisableRule \/ LibConfigureRule \/ LibEvaluateOutfit \/ Return

SpecLib == InitLib /\ [][NextLib]_vars

----------------------------------------------------------------------------
(* Threads reading one library (SpecThreads)                                *)

Threads == {1, 2}

\* the tuple (255, 0), which no colour rule can take apart
ShortTuple == [r |-> 255, g |-> 0]

\* the libraries the threads read
ThreadLibraries ==
    { load_default_rules, disable_rule(load_default_rules, "three_color"),
      disable_rule(load_default_rules, "light_top_dark_bottom") }

ThreadColors ==
    { Some(<<White>>), Some(<<RGB(255, 0, 0), Named("green")>>), Some(<<ShortTuple>>) }

ThreadTopBottom ==
    { <<None, None>>, <<Some(<<ShortTuple>>), Some(<<White>>)>>,
      <<Some(<<Black>>), Some(<<White>>)>> }

\* the calls a thread makes
ThreadCalls ==
    {[op |-> "get_enabled_rules"]}
    \cup {[op |-> "evaluate_outfit", colors |-> c, styles |-> None, context |-> None,
           top_colors |-> tb[1], bottom_colors |-> tb[2]] :
          c \in ThreadColors, tb \in ThreadTopBottom}

\* the locals of a call: the enabled rules (indices into the library), the
\* position of the loop, the results so far, and the value returned; held is
\* the report the caller keeps from its earlier call with these arguments
NoLocals ==
    [enabled |-> <<>>, next |-> 1, rule_results |-> <<>>, value |-> None, held |-> None]

\* the outfit_data of the call c
OutfitDataOf(c) ==
    outfit_data_of(c.colors, c.styles, c.context, c.top_colors, c.bottom_colors)

\* the indices of the enabled rules of rs, in order
enabled_indices(rs) ==
    LET kept[k \in 0..Len(rs)] ==
            IF k = 0 THEN <<>>
            ELSE IF rs[k].enabled THEN Append(kept[k - 1], k) ELSE kept[k - 1]
    IN  kept[Len(rs)]

InitThreads ==
    /\ rules \in ThreadLibraries
    /\ pc = [t \in Threads |-> "call"]
    /\ call \in [Threads -> ThreadCalls]
    /\ ret = [t \in Threads |-> NoLocals]
    /\ compensated_sum \in BOOLEAN

\* get_enabled_rules(): one pass over self.rules
TGetEnabledRules(t) ==
    /\ pc[t] = "call"
    /\ call[t].op = "get_enabled_rules"
    /\ ret' = [ret EXCEPT ![t].value = Some(get_enabled_rules(rules))]
    /\ pc' = [pc EXCEPT ![t] = "done"]
    /\ UNCHANGED <<rules, call>>
    /\ UNCHANGED compensated_sum

\* an evaluate_outfit whose rule_results list is made once, with the
\* evaluator, and not for each call
TStartEvaluate_keeping_results(t) ==
    /\ pc[t] = "call"
    /\ call[t].op = "evaluate_outfit"
    /\ ret' = [ret EXCEPT ![t].enabled = enabled_indices(rules), ![t].next = 1,
                          ![t].value = None]
    /\ pc' = [pc EXCEPT ![t] = "loop"]
    /\ UNCHANGED <<rules, call>>
    /\ UNCHANGED compensated_sum

\* evaluate_outfit up to its loop: outfit_data, rule_results = [], the totals
\* at 0.0, and the list get_enabled_rules() returns; every local is made
\* anew, whatever an earlier call left
TStartEvaluate(t) ==
    /\ pc[t] = "call"
    /\ call[t].op = "evaluate_outfit"
    /\ ret' = [ret EXCEPT ![t] = [NoLocals EXCEPT !.enabled = enabled_indices(rules),
                                                  !.held = ret[t].held]]
    /\ pc' = [pc EXCEPT ![t] = "loop"]
    /\ UNCHANGED <<rules, call>>
    /\ UNCHANGED compensated_sum

\* a loop body that appends to one rule_results list kept by the evaluator
TEvaluateRule_shared_results(t) ==
    /\ pc[t] = "loop"
    /\ ret[t].next <= Len(ret[t].enabled)
    /\ ~evaluate_raises(rules[ret[t].enabled[ret[t].next]], OutfitDataOf(call[t]))
    /\ LET rule == rules[ret[t].enabled[ret[t].next]]
           entry == result_entry(rule, evaluate(compensated_sum, rule, OutfitDataOf(call[t])))
       IN  ret' = [u \in Threads |->
                     IF u = t
                     THEN [ret[u] EXCEPT !.rule_results = Append(@, entry), !.next = @ + 1]
                     ELSE IF pc[u] = "loop"
                          THEN [ret[u] EXCEPT !.rule_results = Append(@, entry)]
                          ELSE ret[u]]
    /\ UNCHANGED <<rules, pc, call>>
    /\ UNCHANGED compensated_sum

\* one pass of the loop: result = rule.evaluate(outfit_data), result.weight =
\* rule.weight, rule_results.append(...)
TEvaluateRule(t) ==
    /\ pc[t] = "loop"
    /\ ret[t].next <= Len(ret[t].enabled)
    /\ ~evaluate_raises(rules[ret[t].enabled[ret[t].next]], OutfitDataOf(call[t]))
    /\ LET rule == rules[ret[t].enabled[ret[t].next]]
           entry == result_entry(rule, evaluate(compensated_sum, rule, OutfitDataOf(call[t])))
       IN  ret' = [ret EXCEPT ![t].rule_results = Append(@, entry), ![t].next = @ + 1]
    /\ UNCHANGED <<rules, pc, call>>
    /\ UNCHANGED compensated_sum

\* a loop with try / except around rule.evaluate: the rule that raises is
\* skipped
TRaise_skipping(t) ==
    /\ pc[t] = "loop"
    /\ ret[t].next <= Len(ret[t].enabled)
    /\ evaluate_raises(rules[ret[t].enabled[ret[t].next]], OutfitDataOf(call[t]))
    /\ ret' = [ret EXCEPT ![t].next = @ + 1]
    /\ UNCHANGED <<rules, pc, call>>
    /\ UNCHANGED compensated_sum

\* rule.evaluate(outfit_data) raises: nothing catches it, the call ends
\* without a report
TRaise(t) ==
    /\ pc[t] = "loop"
    /\ ret[t].next <= Len(ret[t].enabled)
    /\ evaluate_raises(rules[ret[t].enabled[ret[t].next]], OutfitDataOf(call[t]))
    /\ pc' = [pc EXCEPT ![t] = "raised"]
    /\ UNCHANGED <<rules, call, ret>>
    /\ UNCHANGED compensated_sum

\* after the loop: the score, the suggestions, the summary, the report
TReturnReport(t) ==
    /\ pc[t] = "loop"
    /\ ret[t].next > Len(ret[t].enabled)
    /\ ret' = [ret EXCEPT ![t].value =
                  Some(report_with_score(ret[t].rule_results))]
    /\ pc' = [pc EXCEPT ![t] = "done"]
    /\ UNCHANGED <<rules, call>>
    /\ UNCHANGED compensated_sum

\* the caller keeps the report and calls evaluate_outfit a second time, on
\* the same evaluator with the same arguments
TCallAgain(t) ==
    /\ pc[t] = "done"
    /\ call[t].op = "evaluate_outfit"
    /\ ret[t].held = None
    /\ ret' = [ret EXCEPT ![t].held = ret[t].value]
    /\ pc' = [pc EXCEPT ![t] = "call"]
    /\ UNCHANGED <<rules, call>>
    /\ UNCHANGED compensated_sum

NextThreads ==
    \E t \in Threads :
        \/ TGetEnabledRules(t)
        \/ TStartEvaluate(t)
        \/ TEvaluateRule(t)
        \/ TRaise(t)
        \/ TReturnReport(t)
        \/ TCallAgain(t)

SpecThreads == InitThreads /\ [][NextThreads]_vars

----------------------------------------------------------------------------
(* add_rule and remove_rule from two threads (SpecMutate)                   *)

\* One thread calls add_rule(rule), the other remove_rule(name). rules holds
\* the list objects: L0, the list self.rules names at first, L1, the list the
\* comprehension of remove_rule builds, and ref, the one self.rules names now.
\* call holds the arguments, the library at the start, and the callers' lock:
\* with call.mutex every call is made inside "with lock:", holder being the
\* thread in it. ret holds the locals: the list object add_rule loaded, and
\* for remove_rule the list it iterates, its position and the rules kept.

\* the rules handed to add_rule: objects the library does not hold
MutateAdded == { ("id" :> 7) @@ AddedRule, ("id" :> 7) @@ LightTopDarkBottomRule(12) }

\* the names handed to remove_rule
MutateRemoved == { "three_color", "forbidden_color_combo", "context_appropriate",
                   "no_such_rule" }

\* the libraries the two calls start from
MutateLibraries ==
    { load_default_rules, add_rule(load_default_rules, ("id" :> 6) @@ CustomRule) }

InitMutate ==
    /\ \E lib \in MutateLibraries, r \in MutateAdded, n \in MutateRemoved,
          m \in BOOLEAN :
          /\ n # r.name
          /\ rules = [ref |-> "L0", L0 |-> lib, L1 |-> <<>>]
          /\ call = [rule |-> r, name |-> n, lib |-> lib, mutex |-> m, holder |-> "none"]
    /\ pc = [add |-> "call", remove |-> "call"]
    /\ ret = [add |-> "none", remove |-> [list |-> "none", next |-> 1, kept |-> <<>>]]
    /\ compensated_sum \in BOOLEAN

\* add_rule taking no lock: self.rules is loaded whoever holds the lock
AddLoad_unlocked ==
    /\ pc.add = "call"
    /\ ret' = [ret EXCEPT !.add = rules.ref]
    /\ pc' = [pc EXCEPT !.add = "loaded"]
    /\ UNCHANGED <<rules, call>>
    /\ UNCHANGED compensated_sum

\* add_rule: self.rules is loaded (inside the lock when there is one)
AddLoad ==
    /\ pc.add = "call"
    /\ call.mutex => call.holder = "none"
    /\ call' = IF call.mutex THEN [call EXCEPT !.holder = "add"] ELSE call
    /\ ret' = [ret EXCEPT !.add = rules.ref]
    /\ pc' = [pc EXCEPT !.add = "loaded"]
    /\ UNCHANGED rules
    /\ UNCHANGED compensated_sum

\* add_rule: .append(rule) on the list object loaded
AddAppend ==
    /\ pc.add = "loaded"
    /\ rules' = [rules EXCEPT ![ret.add] = Append(@, call.rule)]
    /\ call' = IF call.mutex THEN [call EXCEPT !.holder = "none"] ELSE call
    /\ pc' = [pc EXCEPT !.add = "done"]
    /\ UNCHANGED ret
    /\ UNCHANGED compensated_sum

\* remove_rule: self.rules is loaded and the comprehension starts on it
RemoveLoad ==
    /\ pc.remove = "call"
    /\ call.mutex => call.holder = "none"
    /\ call' = IF call.mutex THEN [call EXCEPT !.holder = "remove"] ELSE call
    /\ ret' = [ret EXCEPT !.remove.list = rules.ref]
    /\ pc' = [pc EXCEPT !.remove = "iter"]
    /\ UNCHANGED rules
    /\ UNCHANGED compensated_sum

\* remove_rule: one step of the iterator over the list object, as it is now:
\* the next rule is kept if r.name != rule_name, and the iterator ends when
\* its position is past the end of the list
RemoveIter ==
    /\ pc.remove = "iter"
    /\ LET list == rules[ret.remove.list]
           i == ret.remove.next
       IN  IF i <= Len(list)
           THEN /\ ret' = [ret EXCEPT !.remove.next = i + 1,
                                      !.remove.kept =
                                          IF list[i].name # call.name
                                          THEN Append(@, list[i]) ELSE @]
                /\ pc' = pc
           ELSE /\ pc' = [pc EXCEPT !.remove = "store"]
                /\ ret' = ret
    /\ UNCHANGED <<rules, call>>
    /\ UNCHANGED compensated_sum

\* remove_rule: self.rules = the new list
RemoveStore ==
    /\ pc.remove = "store"
    /\ rules' = [rules EXCEPT !.ref = "L1", !.L1 = ret.remove.kept]
    /\ call' = IF call.mutex THEN [call EXCEPT !.holder = "none"] ELSE call
    /\ pc' = [pc EXCEPT !.remove = "done"]
    /\ UNCHANGED ret
    /\ UNCHANGED compensated_sum

NextMutate == AddLoad \/ AddAppend \/ RemoveLoad \/ RemoveIter \/ RemoveStore

SpecMutate == InitMutate /\ [][NextMutate]_vars

----------------------------------------------------------------------------
(* Properties                                                               *)

ReturnedFrom(op) == pc = "done" /\ call.op = op

\* a single rule of class cls has been evaluated
Evaluated(cls) == ReturnedFrom("evaluate") /\ call.rule.cls = cls

\* the colors list a rule evaluated alone was given
GivenColors == Get(call.outfit_data, "colors", <<>>)

\* the styles dict a rule evaluated alone was given
GivenStyles == Get(call.outfit_data, "styles", EmptyDict)

IsResult(r, passed, score, severity) ==
    r.passed = passed /\ r.score = FOfInt(score) /\ r.severity = severity

\* C1: for every outfit input and every enabled subset of the five default
\* rules with positive weights, the score of the report returned by
\* evaluate_outfit lies in [0, 100] (the report score is in hundredths).
C1_ReportScoreInRange ==
    (/\ ReturnedFrom("evaluate_outfit")
     /\ \A i \in 1..Len(rules) : rules[i].weight > 0)
    => (ret.score >= 0 /\ ret.score <= 100 * 100)

\* a report over two or more rules, one of them configured to another
\* weight and one of them scoring 0
C1_Witness ==
    /\ ReturnedFrom("evaluate_outfit")
    /\ Len(ret.results) >= 2
    /\ \E i \in 1..Len(ret.results) : ret.results[i].score = FOfInt(0)
    /\ \E i \in 1..Len(ret.results) : ret.results[i].weight \in WeightChoices
    /\ ret.score > 0 /\ ret.score < 100 * 100

\* C2: classify_color_type((255,0,0)) is exactly red / warm, (0,0,0) is
\* black / neutral and (0,0,255) is exactly blue / cold.
C2_PrimaryColorNames ==
    ReturnedFrom("classify_color_type") =>
        /\ call.rgb = RGB(255, 0, 0) => ret = Color("red", "warm")
        /\ call.rgb = RGB(0, 0, 0) => ret = Color("black", "neutral")
        /\ call.rgb = RGB(0, 0, 255) => ret = Color("blue", "cold")

\* the complementary family pairs as the specification lists them
C3_FamilyPairs ==
    { <<{"red", "deep_red", "pink"}, {"green", "deep_green", "pale_green"}>>,
      <<{"blue", "deep_blue", "pale_blue"}, {"orange", "yellow", "pale_yellow"}>>,
      <<{"yellow", "pale_yellow"}, {"purple", "deep_purple", "pale_purple"}>> }

\* the reference score: 0, 100, or 100 minus the sum of the deductions
C3_Reference(l) ==
    IF Len(l) = 0 THEN 0
    ELSE IF Len(l) = 1 THEN 100
    ELSE
    LET idx == 1..Len(l)
        tones == {classify_color_type(l[i]).tone : i \in idx}
        names == {classify_color_type(l[i]).name : i \in idx}
        dist == {calculate_color_distance_sq(l[p[1]], l[p[2]]) :
                    p \in {q \in idx \X idx : q[1] < q[2]}}
        closer(x) == \E d \in dist : d < x * x
        farther(x) == \E d \in dist : d > x * x
        no_neutral == "neutral" \notin tones
        d_count == IF Len(l) > 3 THEN 20 ELSE 0
        d_tone == IF {"warm", "cold"} \subseteq tones /\ no_neutral THEN 15 ELSE 0
        d_low == IF closer(50) THEN 20 ELSE IF closer(100) THEN 10 ELSE 0
        d_high == IF farther(400) THEN 10 ELSE 0
        d_compl == IF /\ \E p \in C3_FamilyPairs :
                            names \cap p[1] # {} /\ names \cap p[2] # {}
                      /\ no_neutral
                   THEN 15 ELSE 0
    IN  100 - (d_count + d_tone + d_low + d_high + d_compl)

\* C3: the score of evaluate_color_combo is 0 for an empty list, 100 for one
\* colour, and otherwise 100 minus the sum of all applicable deductions
\* (20 more than 3 colours; 15 warm and cold without neutral; 20 / 10 minimum
\* distance below 50 / 100; 10 maximum distance above 400; 15 complementary
\* families without neutral); [(255,0,0),(0,255,0),(0,0,255)] scores 70.
C3_ComboScoreIsReference ==
    ReturnedFrom("evaluate_color_combo") =>
        /\ ret.score = C3_Reference(call.colors_list)
        /\ call.colors_list = <<RGB(255, 0, 0), RGB(0, 255, 0), RGB(0, 0, 255)>>
              => ret.score = 70

\* four colours on which all five deductions apply at once
C3_Witness ==
    /\ ReturnedFrom("evaluate_color_combo")
    /\ Len(call.colors_list) = 4
    /\ ret.score = 100 - (20 + 15 + 20 + 10 + 15)

\* C4: for every sequence of RGB colours (empty, single or longer, with
\* repeats) the score of evaluate_color_combo lies in [0, 100].
C4_ComboScoreInRange ==
    ReturnedFrom("evaluate_color_combo") => (ret.score >= 0 /\ ret.score <= 100)

\* a list of three or more colours with a repeated colour, scored below 100
C4_Witness ==
    /\ ReturnedFrom("evaluate_color_combo")
    /\ Len(call.colors_list) >= 3
    /\ \E i, j \in 1..Len(call.colors_list) :
          i < j /\ call.colors_list[i] = call.colors_list[j]
    /\ ret.score < 100

\* C5: ForbiddenColorComboRule reports a violation for a list of colours
\* exactly when the complementary check of evaluate_color_combo
\* (has_complementary) finds a conflict for the same colour names.
C5_RuleAgreesWithCombo ==
    (Evaluated("ForbiddenColorComboRule") /\ GivenColors # <<>>) =>
        (~ret.passed <=>
            has_complementary([i \in 1..Len(GivenColors) |-> color_name(GivenColors[i])]))

\* the number of distinct non-unknown style types among the three slots
C6_Types(styles) ==
    {get_style_type(Get(styles, slot, "")) : slot \in Slots} \ {"unknown"}

\* C6: StyleCoordinationRule gives 100 / passed / info for one style type,
\* 70 / warning for two, 40 / error / not passed for the conflicting case,
\* and each of the three outcomes is produced by some styles mapping.
C6_StyleOutcomes ==
    (Evaluated("StyleCoordinationRule") /\ C6_Types(GivenStyles) # {}) =>
        /\ Cardinality(C6_Types(GivenStyles)) = 1 => IsResult(ret, TRUE, 100, "info")
        /\ Cardinality(C6_Types(GivenStyles)) = 2
              => ret.score = FOfInt(70) /\ ret.severity = "warning"
        /\ \E d \in StylesDicts :
              IsResult(StyleCoordinationRule_evaluate_styles(call.rule, d, call.outfit_data),
                       FALSE, 40, "error")

\* C7: when the styles section is absent or empty, StyleCoordinationRule and
\* ContextAppropriateRule return passed, score 100, severity info, whatever
\* the context type is.
C7_NoStylesPasses ==
    (/\ ReturnedFrom("evaluate")
     /\ call.rule.cls \in {"StyleCoordinationRule", "ContextAppropriateRule"}
     /\ DOMAIN GivenStyles = {})
    => IsResult(ret, TRUE, 100, "info")

\* the forbidden family pairs of the rule
C8_ForbiddenPairs ==
    { <<{"red", "deep_red", "pink"}, {"green", "deep_green", "pale_green"}>>,
      <<{"purple", "deep_purple", "pale_purple"}, {"yellow", "pale_yellow", "orange"}>>,
      <<{"blue", "deep_blue", "pale_blue"}, {"orange", "yellow", "pale_yellow"}>> }

\* C8: on a non-empty list ForbiddenColorComboRule returns 50 / error / not
\* passed when the colour names hold a name from each side of a forbidden
\* family pair (as (255,0,0) with (0,255,0)), else 100 / passed / info (as
\* (255,0,0) with (0,0,255)).
C8_ForbiddenCombo ==
    (Evaluated("ForbiddenColorComboRule") /\ GivenColors # <<>>) =>
        LET names == {color_name(GivenColors[i]) : i \in 1..Len(GivenColors)}
            conflict == \E p \in C8_ForbiddenPairs :
                            names \cap p[1] # {} /\ names \cap p[2] # {}
        IN  /\ conflict => IsResult(ret, FALSE, 50, "error")
            /\ ~conflict => IsResult(ret, TRUE, 100, "info")
            /\ GivenColors = <<RGB(255, 0, 0), RGB(0, 255, 0)>>
                  => IsResult(ret, FALSE, 50, "error")
            /\ GivenColors = <<RGB(255, 0, 0), RGB(0, 0, 255)>>
                  => IsResult(ret, TRUE, 100, "info")

\* purple with orange, a pair only this rule forbids, is reported
C8_Witness ==
    /\ Evaluated("ForbiddenColorComboRule")
    /\ GivenColors = <<Named("purple"), RGB(255, 165, 0)>>
    /\ IsResult(ret, FALSE, 50, "error")

\* C9: ThreeColorRule(max) counts the distinct non-neutral colour names n
\* (a repeated name once); n <= max gives 100 / passed / info, otherwise
\* score max(0, 100 - (n - max) * 20), warning, not passed; 4 distinct
\* non-neutral colours with max = 3 give 80, 3 colours with a neutral pass.
C9_ThreeColor ==
    (Evaluated("ThreeColorRule") /\ GivenColors # <<>>) =>
        LET n == Cardinality({color_name(GivenColors[i]) : i \in 1..Len(GivenColors)}
                             \ {"black", "white", "gray"})
            max == call.rule.max_colors
        IN  /\ n <= max => IsResult(ret, TRUE, 100, "info")
            /\ n > max => IsResult(ret, FALSE, Max2(0, 100 - (n - max) * 20), "warning")
            /\ (n = 4 /\ max = 3) => ret.score = FOfInt(80)
            /\ (Len(GivenColors) = 3 /\ max = 3 /\ AnyIn(GivenColors, {White}))
                  => ret.passed

\* the four distinct non-neutral colours of the unit test, with max = 3
C9_Witness ==
    /\ Evaluated("ThreeColorRule")
    /\ call.rule.max_colors = 3
    /\ GivenColors = <<RGB(255, 0, 0), RGB(0, 255, 0), RGB(0, 0, 255), RGB(255, 255, 0)>>
    /\ IsResult(ret, FALSE, 80, "warning")

\* the recommended categories of the mapped context types
C10_Recommended ==
    [formal_occasion |-> {"formal"}, business |-> {"formal"},
     work |-> {"formal", "casual"}, casual |-> {"casual"}, sport |-> {"casual"},
     party |-> {"casual", "formal"}]

\* the category of a style label
C10_Category(label) ==
    IF label \in {"shirt", "coat", "leather_shoes"} THEN "formal"
    ELSE IF label \in {"tshirt", "hoodie", "jeans", "slacks", "sneakers"} THEN "casual"
    ELSE "none"

\* C10: for a context type mapped to a recommended category set,
\* ContextAppropriateRule passes with 100 iff one of the top / bottom /
\* shoes labels belongs to a recommended category, else not passed, 60,
\* warning; for {formal} with three casual labels the suggestion recommends
\* formal pieces; for {casual} with casual labels it passes.
C10_ContextAppropriate ==
    (/\ Evaluated("ContextAppropriateRule")
     /\ "context" \in DOMAIN call.outfit_data
     /\ "type" \in DOMAIN call.outfit_data.context
     /\ call.outfit_data.context.type \in DOMAIN C10_Recommended)
    => LET rec == C10_Recommended[call.outfit_data.context.type]
           labels == [slot \in Slots |-> Get(GivenStyles, slot, "")]
           ok == \E slot \in Slots : C10_Category(labels[slot]) \in rec
           all_casual == \A slot \in Slots : C10_Category(labels[slot]) = "casual"
       IN  /\ ok <=> ret.passed
           /\ ok => IsResult(ret, TRUE, 100, "info")
           /\ ~ok => IsResult(ret, FALSE, 60, "warning")
           /\ (rec = {"formal"} /\ all_casual) => ret.suggestion = "choose_formal_pieces"
           /\ (rec = {"casual"} /\ all_casual) => ret.passed

\* a formal occasion met in three casual pieces
C10_Witness ==
    /\ Evaluated("ContextAppropriateRule")
    /\ "context" \in DOMAIN call.outfit_data
    /\ call.outfit_data.context = [k \in {"type"} |-> "formal_occasion"]
    /\ DOMAIN GivenStyles = Slots
    /\ \A slot \in Slots : GivenStyles[slot] \in {"tshirt", "jeans"}
    /\ IsResult(ret, FALSE, 60, "warning")
    /\ ret.suggestion = "choose_formal_pieces"

\* the indices of the rules enabled in the library
EnabledIndices == {i \in 1..Len(rules) : rules[i].enabled}

\* the natural a lies within tol of the natural b
Within(a, b, tol) == BigCmp(a, BigAdd(b, tol)) <= 0 /\ BigCmp(b, BigAdd(a, tol)) <= 0

\* the rounding error allowed to the double quotient: 2^-30 of a hundredth
C11_RoundingError == BigShl(<<1>>, FracBits - 30)

\* the report holds one result for each enabled rule, carrying the current
\* weight of the rule, and its score is 0 when no rule is enabled, else within
\* half a hundredth and slack of the sum of score_i * weight_i over the
\* results divided by the sum of weight_i.  (With the scores in units, the
\* weights in tenths and the report score in hundredths:
\* |200 * sum - 2 * score * weights| <= weights * (1 + 2 * slack), in units.)
C11_Aggregate(slack) ==
    ReturnedFrom("evaluate_outfit") =>
        LET enabled == get_enabled_rules(rules)
            n == Len(ret.results)
            weights == SumInt([i \in 1..Len(enabled) |-> enabled[i].weight], 1)
        IN  /\ n = Len(enabled)
            /\ \A i \in 1..n : ret.results[i].weight = enabled[i].weight
            /\ n = 0 => ret.score = 0
            /\ (n > 0 /\ weights > 0) =>
                  Within(BigMulSmall(SumSeq([i \in 1..n |->
                                               BigMulSmall(ret.results[i].score,
                                                           enabled[i].weight)], 1), 200),
                         BigMulSmall(BigMulSmall(FOfInt(ret.score), weights), 2),
                         BigMulSmall(BigAdd(FOfInt(1), BigMulSmall(slack, 2)), weights))

\* C11 as stated: the score of the report is the sum of score_i * weight_i
\* over the results of the enabled rules divided by the sum of weight_i, each
\* weight being the current weight of the rule, rounded to two decimals
\* (within half a hundredth of the quotient), and 0 when no rule is enabled.
C11_AggregateScore == C11_Aggregate(<<>>)

\* C11 (amended): the score of the report is the sum of score_i * weight_i
\* over the results of the enabled rules divided by the sum of weight_i, each
\* weight being the current weight of the rule, computed in doubles and then
\* rounded to two decimals: it is within half a hundredth and the rounding
\* error of the doubles (below 2^-30 of a hundredth) of the exact quotient,
\* and 0 when no rule is enabled.
C11_AggregateScoreOfDoubles == C11_Aggregate(C11_RoundingError)

\* a report over rules of different weights, one reconfigured, with different
\* scores, whose aggregate is not a whole number
C11_Witness ==
    /\ ReturnedFrom("evaluate_outfit")
    /\ \E i, j \in 1..Len(ret.results) :
          /\ ret.results[i].weight \in WeightChoices
          /\ ret.results[j].weight \notin WeightChoices
          /\ ret.results[i].score # ret.results[j].score
    /\ ret.score % 100 # 0

\* C12: the report's passed flag is true iff no result of the enabled rules
\* has severity error; warnings and rules that did not pass do not make the
\* report fail.
C12_PassedIffNoError ==
    ReturnedFrom("evaluate_outfit") =>
        /\ ret.passed <=> (\A i \in 1..Len(ret.results) : ret.results[i].severity # "error")
        /\ Len(ret.results) = Cardinality(EnabledIndices)

\* a passed report holding a warning of a rule that did not pass
C12_Witness ==
    /\ ReturnedFrom("evaluate_outfit")
    /\ ret.passed
    /\ \E i \in 1..Len(ret.results) :
          ~ret.results[i].passed /\ ret.results[i].severity = "warning"

\* C13: a call of evaluate_outfit leaves the library as it was: the same
\* sequence of rules with the same names, weights and enabled flags.
C13_LibraryUnchanged ==
    [][EvaluateOutfit => rules' = rules]_vars

\* a report returned by a library with a rule disabled and a rule reweighted
C13_Witness ==
    /\ ReturnedFrom("evaluate_outfit")
    /\ \E i \in 1..Len(rules) : ~rules[i].enabled
    /\ \E i \in 1..Len(rules) : rules[i].enabled /\ rules[i].weight \in WeightChoices
    /\ Len(ret.results) = Cardinality(EnabledIndices)

\* the number of rules get_enabled_rules returns
EnabledCount(rs) == Len(get_enabled_rules(rs))

\* the names of the rules of the library
LibraryNames == {rules[i].name : i \in 1..Len(rules)}

\* C15 as stated: in every library state, for every name of a rule,
\* disable_rule(name) changes the number of enabled rules by exactly one and
\* so does enable_rule(name), and the opposite call restores the library.
C15_ToggleAlwaysChangesCount ==
    \A n \in LibraryNames :
        /\ EnabledCount(disable_rule(rules, n)) = EnabledCount(rules) - 1
        /\ enable_rule(disable_rule(rules, n), n) = rules
        /\ EnabledCount(enable_rule(rules, n)) = EnabledCount(rules) + 1
        /\ disable_rule(enable_rule(rules, n), n) = rules

\* the number of positions of the library that hold the rule object at i
C15_Positions(i) == Cardinality({j \in 1..Len(rules) : rules[j].id = rules[i].id})

\* C15 (amended): disable_rule(name), when the first rule of that name is
\* enabled, lowers the number of enabled rules by the number of positions
\* that hold this rule object (exactly one unless the same object was added
\* more than once) and enable_rule(name) afterwards restores the library;
\* enable_rule(name), when that rule is disabled, raises it by the same
\* number and disable_rule(name) afterwards restores the library; a call
\* that asks for the state the rule is already in, or names no rule, changes
\* nothing; after disable then enable of a rule of a library with every rule
\* enabled, every rule is enabled again.
C15_ToggleChangesCountWhenEffective ==
    \A n \in LibNames \cup RuleNames :
        LET i == get_rule(rules, n)
            d == disable_rule(rules, n)
            e == enable_rule(rules, n)
        IN  /\ (i # 0 /\ rules[i].enabled) =>
                  /\ EnabledCount(d) = EnabledCount(rules) - C15_Positions(i)
                  /\ (C15_Positions(i) = 1 => EnabledCount(d) = EnabledCount(rules) - 1)
                  /\ enable_rule(d, n) = rules
                  /\ e = rules
            /\ (i # 0 /\ ~rules[i].enabled) =>
                  /\ EnabledCount(e) = EnabledCount(rules) + C15_Positions(i)
                  /\ (C15_Positions(i) = 1 => EnabledCount(e) = EnabledCount(rules) + 1)
                  /\ disable_rule(e, n) = rules
                  /\ d = rules
            /\ i = 0 => (d = rules /\ e = rules)
            /\ (i # 0 /\ EnabledCount(rules) = Len(rules)) =>
                  EnabledCount(enable_rule(d, n)) = Len(rules)

\* disable_rule has just switched off a rule object that two positions of
\* the library hold, and a rule of another name, at one position, was
\* switched off before
C15_Witness ==
    /\ ReturnedFrom("disable_rule")
    /\ get_rule(rules, call.name) # 0
    /\ C15_Positions(get_rule(rules, call.name)) = 2
    /\ ~rules[get_rule(rules, call.name)].enabled
    /\ \E i \in 1..Len(rules) :
          /\ rules[i].name # call.name
          /\ ~rules[i].enabled
          /\ C15_Positions(i) = 1
    /\ Cardinality(EnabledIndices) = Len(rules) - 3

\* C16: a newly constructed library holds exactly five rules, all enabled,
\* in the order ThreeColorRule (1.5), LightTopDarkBottomRule (1.2),
\* ForbiddenColorComboRule (1.8), StyleCoordinationRule (1.5),
\* ContextAppropriateRule (1.3); weights are in tenths.
C16_DefaultLibrary ==
    Init =>
        /\ Len(rules) = 5
        /\ [i \in 1..5 |-> rules[i].cls] =
              <<"ThreeColorRule", "LightTopDarkBottomRule", "ForbiddenColorComboRule",
                "StyleCoordinationRule", "ContextAppropriateRule">>
        /\ [i \in 1..5 |-> rules[i].weight] = <<15, 12, 18, 15, 13>>
        /\ \A i \in 1..5 : rules[i].enabled
        /\ rules[1].max_colors = 3

\* the library as constructed, before any call
C16_Witness ==
    /\ Init
    /\ EnabledCount(rules) = 5

\* C19: in the summary of the report total_rules is the number of rules
\* enabled at the call, passed_rules + failed_rules = total_rules, errors and
\* warnings are the numbers of results with severity error and warning, and
\* errors + warnings <= total_rules.
C19_Summary ==
    ReturnedFrom("evaluate_outfit") =>
        LET idx == 1..Len(ret.results)
            s == ret.summary
        IN  /\ s.total_rules = Cardinality(EnabledIndices)
            /\ s.total_rules = Len(ret.results)
            /\ s.passed_rules = Cardinality({i \in idx : ret.results[i].passed})
            /\ s.passed_rules + s.failed_rules = s.total_rules
            /\ s.errors = Cardinality({i \in idx : ret.results[i].severity = "error"})
            /\ s.warnings = Cardinality({i \in idx : ret.results[i].severity = "warning"})
            /\ s.errors + s.warnings <= s.total_rules

\* a report of four rules: one error, one warning, two passed
C19_Witness ==
    /\ ReturnedFrom("evaluate_outfit")
    /\ ret.summary.total_rules = 4
    /\ ret.summary.errors = 1
    /\ ret.summary.warnings = 1
    /\ ret.summary.passed_rules = 2
    /\ ret.summary.failed_rules = 2

\* C17: ColorRule, StyleRule and ContextRule return passed, score 100,
\* severity info, with the message of the skipped evaluation and no
\* suggestion, when their own section of the outfit (colors, styles, context)
\* is absent or empty; so does LightTopDarkBottomRule when colors is empty
\* but top_colors and bottom_colors are supplied.
C17_EmptySectionSkips ==
    ReturnedFrom("evaluate") =>
        LET section == IF call.rule.cls \in ColorRuleClasses THEN "colors"
                       ELSE IF call.rule.cls = "StyleCoordinationRule" THEN "styles"
                       ELSE "context"
            skipped == [colors |-> "no_colors_skipped", styles |-> "no_styles_skipped",
                        context |-> "no_context_skipped"]
            empty == \/ section \notin DOMAIN call.outfit_data
                     \/ call.outfit_data[section] = <<>>
        IN  empty => /\ IsResult(ret, TRUE, 100, "info")
                     /\ ret.message = skipped[section]
                     /\ ret.suggestion = NoSuggestion

\* LightTopDarkBottomRule skipped on empty colors, with a black top over
\* white bottoms supplied
C17_Witness ==
    /\ Evaluated("LightTopDarkBottomRule")
    /\ GivenColors = <<>>
    /\ Get(call.outfit_data, "top_colors", <<>>) = <<Black>>
    /\ Get(call.outfit_data, "bottom_colors", <<>>) = <<White>>
    /\ IsResult(ret, TRUE, 100, "info")

\* the top_colors / bottom_colors lists a rule evaluated alone was given
GivenTop == Get(call.outfit_data, "top_colors", <<>>)

GivenBottom == Get(call.outfit_data, "bottom_colors", <<>>)

\* the natural n < 2^30 in limbs
BigOfNat(n) ==
    IF n = 0 THEN <<>>
    ELSE IF n < LimbBase THEN <<n>>
    ELSE <<n % LimbBase, n \div LimbBase>>

\* C18: with colors, top_colors and bottom_colors given,
\* LightTopDarkBottomRule compares the average brightness of top_colors with
\* that of bottom_colors: top >= bottom, ties included, gives passed,
\* score 100; otherwise score = max(0, 100 - (bottom - top) / 2), warning,
\* not passed, the score being 0 once bottom exceeds top by 200 or more.
\* (top = st / (1000 lt), bottom = sb / (1000 lb); the score times
\* 2000 lt lb is 200000 lt lb - diffnum.)
C18_LightTopDarkBottom ==
    (/\ Evaluated("LightTopDarkBottomRule")
     /\ GivenColors # <<>> /\ GivenTop # <<>> /\ GivenBottom # <<>>)
    => LET lt == Len(GivenTop)
           lb == Len(GivenBottom)
           st == SumBrightness(GivenTop, 1)
           sb == SumBrightness(GivenBottom, 1)
           diffnum == sb * lt - st * lb
       IN  /\ diffnum <= 0 => IsResult(ret, TRUE, 100, "info")
           /\ diffnum > 0 =>
                 /\ ~ret.passed /\ ret.severity = "warning"
                 /\ BigMulSmall(ret.score, 2000 * lt * lb) =
                        BigShl(BigOfNat(Max2(0, 200000 * lt * lb - diffnum)), FracBits)
                 /\ diffnum >= 200000 * lt * lb => ret.score = FOfInt(0)

\* the palette of colour names with their tones
C20_Palette ==
    [black |-> "neutral", white |-> "neutral", gray |-> "neutral",
     brown |-> "warm", orange |-> "warm", pale_yellow |-> "warm", yellow |-> "warm",
     pink |-> "warm", deep_red |-> "warm", red |-> "warm",
     pale_green |-> "cold", deep_green |-> "cold", green |-> "cold",
     pale_blue |-> "cold", deep_blue |-> "cold", blue |-> "cold",
     pale_purple |-> "cold", deep_purple |-> "cold", purple |-> "cold"]

\* pale above brightness 200, deep below low, plain between
C20_Shade(c, low, pale, deep, plain) ==
    IF BrightnessGT(c, 200) THEN pale ELSE IF BrightnessLT(c, low) THEN deep ELSE plain

\* the predicates in their order, each with the name it returns
C20_Predicates(c) ==
    LET r == c.r
        g == c.g
        b == c.b
        total == r + g + b
        hi == Max3(r, g, b)
        orange == /\ (100 * r > 115 * g \/ (100 * r = 115 * g /\ g \in Times115RoundsDown))
                  /\ g > 100
    IN  << [when |-> hi - Min3(r, g, b) < 30,
            name |-> IF BrightnessLT(c, 30) THEN "black"
                     ELSE IF BrightnessGT(c, 225) THEN "white" ELSE "gray"],
           [when |-> total = 0, name |-> "black"],
           [when |-> /\ BrightnessLT(c, 150) /\ r > 50 /\ g > 30
                     /\ 10 * b < 7 * Min2(r, g) /\ r > b /\ g > b,
            name |-> "brown"],
           [when |-> 100 * r > 35 * total /\ 10 * g > 3 * total /\ r > b /\ g > b,
            name |-> IF orange THEN "orange"
                     ELSE IF BrightnessGT(c, 200) THEN "pale_yellow" ELSE "yellow"],
           [when |-> 10 * r > 4 * total /\ r > g /\ r > b,
            name |-> C20_Shade(c, 80, "pink", "deep_red", "red")],
           [when |-> 100 * g > 35 * total /\ g > r /\ g > b,
            name |-> C20_Shade(c, 100, "pale_green", "deep_green", "green")],
           [when |-> 10 * b > 4 * total /\ b > r /\ b > g,
            name |-> C20_Shade(c, 100, "pale_blue", "deep_blue", "blue")],
           [when |-> 10 * r > 3 * total /\ 10 * b > 3 * total /\ r > g /\ b > g,
            name |-> C20_Shade(c, 100, "pale_purple", "deep_purple", "purple")],
           [when |-> TRUE,
            name |-> IF hi = r THEN "red" ELSE IF hi = g THEN "green" ELSE "blue"] >>

\* the name of the first predicate that matches
C20_Reference(c) ==
    LET ps == C20_Predicates(c)
        first == CHOOSE i \in 1..Len(ps) :
                    ps[i].when /\ \A j \in 1..(i - 1) : ~ps[j].when
    IN  ps[first].name

\* C20: classify_color_type returns, for an RGB triple, the result of the
\* first predicate that matches in the order spread < 30, total = 0, brown,
\* yellow / orange, red, green, blue, purple, largest channel; the name is a
\* palette name with its tone in {warm, cold, neutral}, and the tone is
\* neutral exactly for black, white and gray.
C20_ClassifyIsFirstMatch ==
    ReturnedFrom("classify_color_type") =>
        /\ ret.name = C20_Reference(call.rgb)
        /\ ret.name \in DOMAIN C20_Palette
        /\ ret.tone = C20_Palette[ret.name]
        /\ ret.tone \in {"warm", "cold", "neutral"}
        /\ ret.tone = "neutral" <=> ret.name \in {"black", "white", "gray"}

\* (255, 165, 0), which matches the yellow / orange predicate and the red
\* one, classified as orange
C20_Witness ==
    /\ ReturnedFrom("classify_color_type")
    /\ call.rgb = RGB(255, 165, 0)
    /\ ret = Color("orange", "warm")

\* the colors list handed to evaluate_outfit, [] when none was given
CalledColors == IF call.colors = None THEN <<>> ELSE call.colors[1]

\* C28: with the five default rules (any weights, any enabled subset) the
\* report fails exactly when ForbiddenColorComboRule is enabled and the
\* non-empty colors list holds a forbidden pair; the results of
\* StyleCoordinationRule and ContextAppropriateRule never have severity error,
\* a formal/casual mix giving 70 with a warning.
C28_FailsOnlyOnForbiddenCombo ==
    ReturnedFrom("evaluate_outfit") =>
        LET names == {color_name(CalledColors[i]) : i \in 1..Len(CalledColors)}
            conflict == \E p \in C8_ForbiddenPairs :
                            names \cap p[1] # {} /\ names \cap p[2] # {}
            forbidden_on == \E i \in 1..Len(rules) :
                               /\ rules[i].cls = "ForbiddenColorComboRule"
                               /\ rules[i].enabled
        IN  /\ ~ret.passed <=> (forbidden_on /\ CalledColors # <<>> /\ conflict)
            /\ \A i \in 1..Len(ret.results) :
                  /\ ret.results[i].rule_name \in {"style_coordination", "context_appropriate"}
                        => ret.results[i].severity # "error"
                  /\ (/\ ret.results[i].rule_name = "style_coordination"
                      /\ call.styles = Some(MixedStyles))
                        => /\ ret.results[i].score = FOfInt(70)
                           /\ ret.results[i].severity = "warning"

\* a report that passes though the styles mix formal and casual pieces and
\* ForbiddenColorComboRule, switched off, was given a forbidden pair
C28_Witness ==
    /\ ReturnedFrom("evaluate_outfit")
    /\ ret.passed
    /\ call.styles = Some(MixedStyles)
    /\ \E i \in 1..Len(ret.results) :
          ret.results[i].rule_name = "style_coordination" /\ ret.results[i].severity = "warning"
    /\ \E i \in 1..Len(rules) : rules[i].cls = "ForbiddenColorComboRule" /\ ~rules[i].enabled
    /\ CalledColors = <<RGB(255, 0, 0), Named("green")>>

\* the suggestion s is among those evaluate_color_combo returned
Suggests(s) == \E i \in 1..Len(ret.suggestions) : ret.suggestions[i] = s

\* the points evaluate_color_combo takes off for the size of the list and the
\* contrasts (steps 1 and 4), read off the suggestions it returned
C29_OtherDeductions ==
    (IF Suggests("too_many_colors") THEN 20 ELSE 0)
    + (IF Suggests("contrast_too_low") THEN 20 ELSE 0)
    + (IF Suggests("contrast_low") THEN 10 ELSE 0)
    + (IF Suggests("contrast_too_high") THEN 10 ELSE 0)

\* C29: in evaluate_color_combo the complementary-colour deduction never
\* applies without the warm / cold deduction, so a complementary pair without
\* a neutral colour costs 30 points and never 15; and a list of two or more
\* colours scores at least 20: the deductions sum to at most 80, so the score
\* is 100 less the deductions and the final clamp changes nothing.
C29_ComplementaryImpliesWarmCold ==
    (ReturnedFrom("evaluate_color_combo") /\ Len(call.colors_list) >= 2) =>
        /\ Suggests("complementary_needs_neutral")
              => /\ Suggests("warm_cold_needs_neutral")
                 /\ ret.score = 100 - 30 - C29_OtherDeductions
        /\ ret.score >= 20
        /\ ret.score = 100 - C29_OtherDeductions
                        - (IF Suggests("warm_cold_needs_neutral") THEN 15 ELSE 0)
                        - (IF Suggests("complementary_needs_neutral") THEN 15 ELSE 0)

\* four colours with every deduction at once, a complementary pair among
\* them: the lowest score, 20
C29_Witness ==
    /\ ReturnedFrom("evaluate_color_combo")
    /\ Len(call.colors_list) = 4
    /\ Suggests("complementary_needs_neutral")
    /\ Suggests("warm_cold_needs_neutral")
    /\ ret.score = 20

\* C22: after any sequence of add_rule, remove_rule, enable_rule and
\* disable_rule no two rules of the library have the same name.
C22_NamesUnique ==
    \A i, j \in 1..Len(rules) : rules[i].name = rules[j].name => i = j

\* C23: after any sequence of library operations, configure_rule and
\* add_custom_rule calls every rule of the library has a weight above 0.
C23_WeightsPositive ==
    \A i \in 1..Len(rules) : rules[i].weight > 0

\* the k-th index of the set S of indices, in increasing order
KthOf(S, k) == CHOOSE i \in S : Cardinality({j \in S : j < i}) = k - 1

\* the indices of the results of the report that carry a suggestion
C21_Suggesting == {i \in 1..Len(ret.results) : ret.results[i].suggestion # NoSuggestion}

\* C21: the results of a report are one entry per rule enabled at the call, in
\* the order the rules were registered (add_rule and add_custom_rule put the
\* rule after every rule registered before, the default rules coming first),
\* and the suggestions are the results with a suggestion, in the same order,
\* each with the name of its rule and its severity.
C21_ResultsInRegistrationOrder ==
    /\ [](ReturnedFrom("evaluate_outfit") =>
            /\ Len(ret.results) = Cardinality(EnabledIndices)
            /\ \A k \in 1..Len(ret.results) :
                  /\ ret.results[k].rule_name = rules[KthOf(EnabledIndices, k)].name
                  /\ ret.results[k].weight = rules[KthOf(EnabledIndices, k)].weight
            /\ Len(ret.suggestions) = Cardinality(C21_Suggesting)
            /\ \A k \in 1..Len(ret.suggestions) :
                  LET r == ret.results[KthOf(C21_Suggesting, k)]
                  IN  ret.suggestions[k] = [rule |-> r.rule_name,
                                            suggestion |-> r.suggestion,
                                            severity |-> r.severity])
    /\ [][(pc = "idle" /\ pc' = "done" /\ call'.op \in {"add_rule", "add_custom_rule"})
            => /\ Len(rules') = Len(rules) + 1
               /\ rules'[Len(rules')] = call'.rule
               /\ \A i \in 1..Len(rules) : rules'[i] = rules[i]]_vars

\* a report over a library holding, after the default rules, the rule added
\* by add_rule and then the one added by add_custom_rule, with a rule switched
\* off before them and fewer suggestions than results
C21_Witness ==
    /\ ReturnedFrom("evaluate_outfit")
    /\ Len(rules) = MaxRules
    /\ rules[Len(rules) - 1].cls = AddedRule.cls
    /\ rules[Len(rules)].cls = CustomRule.cls
    /\ rules[Len(rules) - 1].max_colors = AddedRule.max_colors
    /\ rules[Len(rules)].max_colors = CustomRule.max_colors
    /\ rules[Len(rules) - 1].id # rules[Len(rules)].id
    /\ \E i \in 1..(Len(rules) - 2) : ~rules[i].enabled
    /\ Len(ret.results) >= 4
    /\ ret.results[Len(ret.results) - 1].weight = AddedRule.weight
    /\ ret.results[Len(ret.results)].weight = CustomRule.weight
    /\ Len(ret.suggestions) > 0
    /\ Len(ret.suggestions) < Len(ret.results)

\* the library operation op has just been called on the idle library
Called(op) == pc = "idle" /\ pc' = "done" /\ call'.op = op

\* the first index of a rule named n, 0 when there is none
C30_First(n) ==
    IF \E i \in 1..Len(rules) : rules[i].name = n
    THEN KthOf({i \in 1..Len(rules) : rules[i].name = n}, 1)
    ELSE 0

\* every rule but the one at index i is left as it was
C30_OnlyChanges(i) ==
    /\ Len(rules') = Len(rules)
    /\ \A j \in 1..Len(rules) : j # i => rules'[j] = rules[j]

\* C30: remove_rule(name) removes every rule with that name and
\* nothing else; get_rule returns, and enable_rule, disable_rule and
\* configure_rule change, only the first registered rule with that name, so
\* every later rule of the same name keeps its flag and weight; a call with a
\* name no rule has changes nothing (get_rule returns None).
C30_FirstMatchOnly ==
    [][/\ Called("remove_rule") =>
            /\ \A j \in 1..Len(rules') : rules'[j].name # call'.name
            /\ LET keep == {i \in 1..Len(rules) : rules[i].name # call'.name}
               IN  /\ Len(rules') = Cardinality(keep)
                   /\ \A k \in 1..Len(rules') : rules'[k] = rules[KthOf(keep, k)]
       /\ Called("get_rule") =>
            /\ rules' = rules
            /\ ret' = IF C30_First(call'.name) = 0 THEN None
                      ELSE Some(rules[C30_First(call'.name)])
       /\ Called("enable_rule") =>
            IF C30_First(call'.name) = 0 THEN rules' = rules
            ELSE /\ C30_OnlyChanges(C30_First(call'.name))
                 /\ rules'[C30_First(call'.name)] =
                        [rules[C30_First(call'.name)] EXCEPT !.enabled = TRUE]
       /\ Called("disable_rule") =>
            IF C30_First(call'.name) = 0 THEN rules' = rules
            ELSE /\ C30_OnlyChanges(C30_First(call'.name))
                 /\ rules'[C30_First(call'.name)] =
                        [rules[C30_First(call'.name)] EXCEPT !.enabled = FALSE]
       /\ Called("configure_rule") =>
            IF C30_First(call'.name) = 0 THEN rules' = rules
            ELSE LET first == C30_First(call'.name)
                 IN  /\ C30_OnlyChanges(first)
                     /\ rules'[first].name = rules[first].name
                     /\ rules'[first].weight =
                            IF call'.weight = None THEN rules[first].weight
                            ELSE call'.weight[1]
                     /\ rules'[first].enabled =
                            IF call'.enabled = None THEN rules[first].enabled
                            ELSE call'.enabled[1]
      ]_vars

\* the list argument opt was not supplied, or supplied empty
Missing(opt) == opt = None \/ opt = Some(<<>>)

\* C27: when evaluate_outfit is given neither top_colors nor bottom_colors
\* (or empty lists) LightTopDarkBottomRule compares the colors list with
\* itself and answers passed, 100, info whatever the colors are; when only one
\* of the two is given the rule compares it with the whole colors list.
C27_TopBottomDefault ==
    ReturnedFrom("evaluate_outfit") =>
        \A k \in 1..Len(ret.results) :
            ret.results[k].rule_name = "light_top_dark_bottom" =>
                LET r == ret.results[k]
                    rule == LightTopDarkBottomRule(r.weight)
                    data(top, bottom) ==
                        [colors |-> CalledColors, styles |-> EmptyDict,
                         context |-> EmptyDict, top_colors |-> top,
                         bottom_colors |-> bottom]
                    same(e) == /\ r.passed = e.passed
                               /\ r.score = e.score
                               /\ r.severity = e.severity
                IN  /\ (Missing(call.top_colors) /\ Missing(call.bottom_colors))
                         => IsResult(r, TRUE, 100, "info")
                    /\ (~Missing(call.top_colors) /\ Missing(call.bottom_colors))
                         => same(evaluate(compensated_sum, rule, data(call.top_colors[1], CalledColors)))
                    /\ (Missing(call.top_colors) /\ ~Missing(call.bottom_colors))
                         => same(evaluate(compensated_sum, rule, data(CalledColors, call.bottom_colors[1])))

\* a report on three colours of different brightness with empty top_colors
\* and bottom_colors lists, LightTopDarkBottomRule among its results
C27_Witness ==
    /\ ReturnedFrom("evaluate_outfit")
    /\ call.top_colors = Some(<<>>)
    /\ call.bottom_colors = Some(<<>>)
    /\ Len(CalledColors) = 3
    /\ \E k \in 1..Len(ret.results) :
          /\ ret.results[k].rule_name = "light_top_dark_bottom"
          /\ IsResult(ret.results[k], TRUE, 100, "info")

\* thread t has returned from its second call of evaluate_outfit
C14_CalledTwice(t) ==
    pc[t] = "done" /\ call[t].op = "evaluate_outfit" /\ ret[t].held # None

\* C14: a second call of evaluate_outfit on the same evaluator with the same
\* arguments, the library not mutated in between, returns a report equal to
\* the one the caller holds from the first call: same score, passed,
\* results, suggestions and summary, whatever other calls run meanwhile.
C14_SameReportAgain ==
    \A t \in Threads :
        C14_CalledTwice(t) =>
            /\ ret[t].value = ret[t].held
            /\ Len(ret[t].rule_results) = Len(ret[t].enabled)

\* a caller holding two reports of several results with a warning and a
\* suggestion, the second call made while the other thread was in its loop
C14_Witness ==
    \E t, u \in Threads :
        /\ C14_CalledTwice(t)
        /\ Len(ret[t].held[1].results) >= 2
        /\ ret[t].held[1].summary.warnings >= 1
        /\ Len(ret[t].held[1].suggestions) >= 1
        /\ u # t /\ pc[u] = "loop" /\ ret[u].next > 1

\* the positions, in the enabled rules thread t loops over, of the rules that
\* raise on its outfit_data
C24_Faulting(t) ==
    {k \in 1..Len(ret[t].enabled) :
        evaluate_raises(rules[ret[t].enabled[k]], OutfitDataOf(call[t]))}

\* C24: when the evaluation of an enabled rule raises, evaluate_outfit gives
\* no report: the call ends at the first rule that raises, with the rules
\* before it evaluated and none after it, and a report is returned only when
\* no enabled rule raises; the library is never changed.
C24_ExceptionPropagates ==
    /\ [](\A t \in Threads :
            /\ pc[t] = "raised" =>
                  /\ ret[t].value = None
                  /\ C24_Faulting(t) # {}
                  /\ ret[t].next = KthOf(C24_Faulting(t), 1)
                  /\ Len(ret[t].rule_results) = ret[t].next - 1
            /\ pc[t] = "loop" =>
                  /\ \A k \in C24_Faulting(t) : k >= ret[t].next
                  /\ Len(ret[t].rule_results) = ret[t].next - 1
            /\ (pc[t] = "done" /\ call[t].op = "evaluate_outfit") =>
                  /\ C24_Faulting(t) = {}
                  /\ ret[t].enabled = enabled_indices(rules))
    /\ [][rules' = rules]_vars

\* a call ended by the second enabled rule, LightTopDarkBottomRule, raising:
\* one result was computed and the rules after it were not evaluated
C24_Witness ==
    \E t \in Threads :
        /\ pc[t] = "raised"
        /\ ret[t].next = 2
        /\ Len(ret[t].rule_results) = 1
        /\ rules[ret[t].enabled[2]].cls = "LightTopDarkBottomRule"
        /\ Len(ret[t].enabled) = 5

\* what the call of thread t returns when it runs alone on the library
C25_Alone(t) ==
    IF call[t].op = "get_enabled_rules" THEN get_enabled_rules(rules)
    ELSE evaluate_outfit(compensated_sum, rules, call[t].colors, call[t].styles, call[t].context,
                         call[t].top_colors, call[t].bottom_colors)

\* C25: with threads that only call evaluate_outfit and get_enabled_rules on
\* one library, under every interleaving of their steps each call returns
\* what it returns when run alone (or raises as it does alone), and the
\* library is never changed.
C25_ReadersIndependent ==
    /\ [](\A t \in Threads :
            /\ pc[t] = "done" => ret[t].value = Some(C25_Alone(t))
            /\ pc[t] = "raised" =>
                  \E i \in 1..Len(rules) :
                      /\ rules[i].enabled
                      /\ evaluate_raises(rules[i], OutfitDataOf(call[t])))
    /\ [][rules' = rules /\ call' = call]_vars

\* thread 2 has returned its report while thread 1, on other arguments, is
\* in the middle of its loop
C25_Witness ==
    /\ pc[1] = "loop"
    /\ ret[1].next = 3
    /\ pc[2] = "done"
    /\ call[2].op = "evaluate_outfit"
    /\ call[1] # call[2]
    /\ ret[2].value # None

\* both calls have returned
C26_BothDone == pc.add = "done" /\ pc.remove = "done"

\* the list self.rules names
C26_Final == rules[rules.ref]

\* the libraries the two calls leave when one runs after the other
C26_Sequential ==
    { remove_rule(add_rule(call.lib, call.rule), call.name),
      add_rule(remove_rule(call.lib, call.name), call.rule) }

\* C26: add_rule(r) and remove_rule(n), n not the name of r, called from two
\* threads without a lock can leave a library neither order of the two calls
\* leaves, namely the one without r (and no other); with every call made
\* inside one lock the library left is that of one of the two orders.
C26_LostAddWithoutMutex ==
    C26_BothDone =>
        /\ call.mutex => C26_Final \in C26_Sequential
        /\ ~call.mutex =>
              C26_Final \in C26_Sequential \cup {remove_rule(call.lib, call.name)}

\* without the lock both calls have returned and the rule added is not in
\* the library, which neither order of the two calls leaves
C26_Witness ==
    /\ C26_BothDone
    /\ ~call.mutex
    /\ C26_Final \notin C26_Sequential
    /\ \A i \in 1..Len(C26_Final) : C26_Final[i] # call.rule
    /\ \E i \in 1..Len(call.lib) : call.lib[i].name = call.name

====
